---------------------------- MODULE Spec2Model ----------------------------
(***************************************************************************)
(* Verification model of the finance-buddy client: the in-memory           *)
(* aggregation done by the Dashboard, Budgets, MonthlyTracker and Reports  *)
(* pages, the transaction exporter (lib/exportUtils) with the             *)
(* Transactions page handlers that call it, and the category handlers of   *)
(* the Settings page over the rows of categories, transactions and budgets.*)
(*                                                                         *)
(* Numbers: amounts are DECIMAL(12,2) values; the model draws them from a  *)
(* small set of integers (one unit = one cent).  A JavaScript quotient is  *)
(* kept exact as a fraction, with the IEEE results NaN and +/-Infinity of  *)
(* a division by zero kept as separate values.                             *)
(***************************************************************************)
EXTENDS Integers, Sequences, FiniteSets, TLC

VARIABLES
    transactions,    \* the rows the page's query returned (useTransactions / reportsQuery.data)
    monthlyIncome,   \* useMonthlyIncome(currentMonth).amount
    page,            \* the page whose memos were last computed
    stats,           \* that page's `stats` memo
    breakdown,       \* that page's per-category memo
    netFigure,       \* the net figure that page shows (balance / savings / net savings)
    percentages,     \* the percentage computed for each entry of `breakdown`
    pdfTable,        \* exportPDF: the body of the 'Category Breakdown' table
    filteredTransactions,  \* Transactions page: the rows the export handlers pass on
    timeZone,        \* sign of the browser's offset from UTC (-1 west, 0, 1 east)
    today,           \* the browser's local date, as a day number
    sink,            \* the downloadBlob calls made so far
    invoked,         \* the exportToCSV / exportToExcel invocations made so far
    callLimit,       \* how many exporter invocations the behaviour may make
    toast,           \* the last toast shown
    csvValue,        \* a string handed to escapeCSV
    csvField,        \* the field escapeCSV returned for it
    categories,      \* Settings: the user's rows of public.categories (useCategories)
    dbTransactions,  \* the user's rows of public.transactions
    budgets,         \* the user's rows of public.budgets
    categoryDialogOpen,  \* Settings: useState
    editingCategory,     \* Settings: useState
    deletingCategory,    \* Settings: useState
    categoryForm,    \* Settings: the values the category form was last reset to
    hookCalls,       \* the addCategory / updateCategory / deleteCategory calls made so far
    settingsToast    \* Settings: the last toast shown

aggVars ==
    <<transactions, monthlyIncome, page, stats, breakdown, netFigure, percentages, pdfTable>>

exportVars == <<filteredTransactions, timeZone, today, sink, invoked, callLimit, toast>>

escapeVars == <<csvValue, csvField>>

settingsVars ==
    <<categories, dbTransactions, budgets, categoryDialogOpen, editingCategory,
      deletingCategory, categoryForm, hookCalls, settingsToast>>

(* Variables of the further pages and of the data store *)

VARIABLES
    store,             \* rows of the eight tables, every user's
    effects,           \* what the last request did, and to whose rows
    requestCount       \* requests made so far

storeVars == <<store, effects, requestCount>>

VARIABLES
    listed,            \* the fetched transaction list, each joined category held by reference
    joined,            \* the joined category records, by reference
    joinedAsFetched,   \* the joined category records as they were fetched
    returned           \* the breakdown a page computed last

aliasVars == <<listed, joined, joinedAsFetched, returned>>

VARIABLES
    period,            \* Reports: monthly or yearly
    reportsData,       \* reportsQuery.data, Null while it loads
    comparisonData,    \* comparisonQuery.data, Null while it loads
    reportsStats,      \* the `stats` memo with the deltas and the trend
    budgetComparisonData  \* the comparison rows

reportsVars == <<period, reportsData, comparisonData, reportsStats, budgetComparisonData>>

VARIABLES
    newBudget,         \* Budgets: text of the budget input
    budgetDialogOpen,  \* Budgets: the budget dialog is open
    incomeValue,       \* MonthlyTracker: text of the income input
    editingIncome,     \* MonthlyTracker: the income editor is shown
    profileBudget,     \* profiles.monthly_budget as stored
    incomeAmount,      \* monthly_income.amount as stored
    amountCalls,       \* the mutateAsync calls made, with the text they came from
    amountToast        \* the last toast of the two handlers

amountsVars == <<newBudget, budgetDialogOpen, incomeValue, editingIncome, profileBudget, incomeAmount, amountCalls, amountToast>>

VARIABLES
    monthPage,         \* the page showing a month: Dashboard, Budgets or MonthlyTracker
    currentMonth,      \* the displayed date
    lastNavigation,    \* the date and direction of the last navigateMonth
    navigations        \* navigateMonth calls so far

monthVars == <<monthPage, currentMonth, lastNavigation, navigations>>

VARIABLES
    paymentLoan,       \* Loans: the loan a payment is recorded for
    paymentAmount,     \* Loans: text of the payment input
    paymentCalls,      \* makePayment.mutateAsync calls and their outcome
    loanToast          \* the last toast of handlePayment

loansVars == <<paymentLoan, paymentAmount, paymentCalls, loanToast>>

VARIABLES
    isSignUp,          \* Auth: the form is in sign-up mode
    isLoading,         \* Auth: a submit is in progress
    authError,         \* Auth: the message shown, Null when none
    pendingCall,       \* the signIn or signUp call in flight
    authUser,          \* a user is signed in
    authToast,         \* the last toast of onSubmit
    lastOutcome,       \* outcome of the most recent submit, Null until it settles
    touchedSince,      \* an edit or toggle happened since the last call settled
    submits            \* submits so far

authVars == <<isSignUp, isLoading, authError, pendingCall, authUser, authToast, lastOutcome, touchedSince, submits>>

coreVars == <<aggVars, exportVars, escapeVars, settingsVars>>

restVars == <<storeVars, aliasVars, reportsVars, amountsVars, monthVars, loansVars, authVars>>

notStoreVars == <<coreVars, aliasVars, reportsVars, amountsVars, monthVars, loansVars, authVars>>

notAliasVars == <<coreVars, storeVars, reportsVars, amountsVars, monthVars, loansVars, authVars>>

notReportsVars == <<coreVars, storeVars, aliasVars, amountsVars, monthVars, loansVars, authVars>>

notAmountsVars == <<coreVars, storeVars, aliasVars, reportsVars, monthVars, loansVars, authVars>>

notMonthVars == <<coreVars, storeVars, aliasVars, reportsVars, amountsVars, loansVars, authVars>>

notLoansVars == <<coreVars, storeVars, aliasVars, reportsVars, amountsVars, monthVars, authVars>>

notAuthVars == <<coreVars, storeVars, aliasVars, reportsVars, amountsVars, monthVars, loansVars>>

vars == <<coreVars, restVars>>

-----------------------------------------------------------------------------
(* Bounds and input domains *)

\* longest transaction list
MaxLen == 2

\* transactions.amount is DECIMAL(12,2) NOT NULL with no CHECK constraint
Amounts == {-1, 0, 1, 2}

\* monthly_income.amount values
MonthlyIncomes == {0, 3}

TransactionTypes == {"income", "expense"}

\* An optional value is a sequence of length at most one.
Null == <<>>

Some(x) == <<x>>

\* The joined category rows: two categories, the first of them seen with two
\* different name/color values (color is nullable, name may be empty).
Food == [id |-> "c1", name |-> "Food", color |-> "#10b981"]

Blank == [id |-> "c1", name |-> "", color |-> ""]

Rent == [id |-> "c2", name |-> "Rent", color |-> "#3b82f6"]

\* (category_id, category) pairs of a fetched transaction
CategoryJoins ==
    { <<Null, Null>>, <<Some("c1"), Some(Food)>>, <<Some("c1"), Some(Blank)>>,
      <<Some("c2"), Some(Rent)>> }

Transactions ==
    { [type |-> ty, amount |-> a, category_id |-> cj[1], category |-> cj[2]] :
        ty \in TransactionTypes, a \in Amounts, cj \in CategoryJoins }

SeqsUpTo(S, n) == UNION { [1..k -> S] : k \in 0..n }

-----------------------------------------------------------------------------
(* Parts of the state a specification does not exercise *)

AggregatorIdle ==
    /\ transactions = <<>>
    /\ monthlyIncome = 0
    /\ page = "none"
    /\ stats = Null
    /\ breakdown = <<>>
    /\ netFigure = 0
    /\ percentages = <<>>
    /\ pdfTable = Null

ExporterIdle ==
    /\ filteredTransactions = <<>>
    /\ timeZone = 0
    /\ today = 1
    /\ sink = <<>>
    /\ invoked = <<>>
    /\ callLimit = 0
    /\ toast = Null

EscapeIdle ==
    /\ csvValue = <<>>
    /\ csvField = Null

SettingsIdle ==
    /\ categories = <<>>
    /\ dbTransactions = <<>>
    /\ budgets = <<>>
    /\ categoryDialogOpen = FALSE
    /\ editingCategory = Null
    /\ deletingCategory = Null
    /\ categoryForm = Null
    /\ hookCalls = <<>>
    /\ settingsToast = Null

CoreIdle == AggregatorIdle /\ ExporterIdle /\ EscapeIdle /\ SettingsIdle

(* The further pages and the data store at rest *)

StoreIdle ==
    /\ store = {}
    /\ effects = {}
    /\ requestCount = 0

AliasIdle ==
    /\ listed = <<>>
    /\ joined = <<>>
    /\ joinedAsFetched = <<>>
    /\ returned = [page |-> "none", items |-> <<>>]

ReportsIdle ==
    /\ period = "monthly"
    /\ reportsData = Null
    /\ comparisonData = Null
    /\ reportsStats = <<>>
    /\ budgetComparisonData = <<>>

AmountsIdle ==
    /\ newBudget = ""
    /\ budgetDialogOpen = FALSE
    /\ incomeValue = ""
    /\ editingIncome = FALSE
    /\ profileBudget = 0
    /\ incomeAmount = 0
    /\ amountCalls = <<>>
    /\ amountToast = Null

MonthIdle ==
    /\ monthPage = "none"
    /\ currentMonth = Null
    /\ lastNavigation = Null
    /\ navigations = 0

LoansIdle ==
    /\ paymentLoan = Null
    /\ paymentAmount = ""
    /\ paymentCalls = <<>>
    /\ loanToast = Null

AuthIdle ==
    /\ isSignUp = FALSE
    /\ isLoading = FALSE
    /\ authError = Null
    /\ pendingCall = Null
    /\ authUser = FALSE
    /\ authToast = Null
    /\ lastOutcome = Null
    /\ touchedSince = FALSE
    /\ submits = 0

RestIdle ==
    /\ StoreIdle
    /\ AliasIdle
    /\ ReportsIdle
    /\ AmountsIdle
    /\ MonthIdle
    /\ LoansIdle
    /\ AuthIdle

NotStoreIdle ==
    /\ CoreIdle
    /\ AliasIdle
    /\ ReportsIdle
    /\ AmountsIdle
    /\ MonthIdle
    /\ LoansIdle
    /\ AuthIdle

NotAliasIdle ==
    /\ CoreIdle
    /\ StoreIdle
    /\ ReportsIdle
    /\ AmountsIdle
    /\ MonthIdle
    /\ LoansIdle
    /\ AuthIdle

NotReportsIdle ==
    /\ CoreIdle
    /\ StoreIdle
    /\ AliasIdle
    /\ AmountsIdle
    /\ MonthIdle
    /\ LoansIdle
    /\ AuthIdle

NotAmountsIdle ==
    /\ CoreIdle
    /\ StoreIdle
    /\ AliasIdle
    /\ ReportsIdle
    /\ MonthIdle
    /\ LoansIdle
    /\ AuthIdle

NotMonthIdle ==
    /\ CoreIdle
    /\ StoreIdle
    /\ AliasIdle
    /\ ReportsIdle
    /\ AmountsIdle
    /\ LoansIdle
    /\ AuthIdle

NotLoansIdle ==
    /\ CoreIdle
    /\ StoreIdle
    /\ AliasIdle
    /\ ReportsIdle
    /\ AmountsIdle
    /\ MonthIdle
    /\ AuthIdle

NotAuthIdle ==
    /\ CoreIdle
    /\ StoreIdle
    /\ AliasIdle
    /\ ReportsIdle
    /\ AmountsIdle
    /\ MonthIdle
    /\ LoansIdle

(* end of the idle states *)

-----------------------------------------------------------------------------
(* JavaScript numbers *)

Num(n) == [kind |-> "finite", num |-> n, den |-> 1]

NaN == [kind |-> "NaN", num |-> 0, den |-> 0]

Infinity(sign) == [kind |-> "Infinity", num |-> sign, den |-> 0]

\* a / b on integer operands
JsDiv(a, b) ==
    IF b = 0
    THEN IF a = 0 THEN NaN ELSE Infinity(IF a > 0 THEN 1 ELSE -1)
    ELSE IF b > 0 THEN [kind |-> "finite", num |-> a, den |-> b]
         ELSE [kind |-> "finite", num |-> -a, den |-> -b]

\* x * 100
JsTimes100(x) ==
    IF x.kind = "finite" THEN [x EXCEPT !.num = 100 * x.num] ELSE x

\* numeric equality of two JavaScript numbers (NaN equals nothing)
JsEq(x, y) ==
    /\ x.kind # "NaN"
    /\ y.kind # "NaN"
    /\ x.kind = y.kind
    /\ IF x.kind = "finite" THEN x.num * y.den = y.num * x.den ELSE x.num = y.num

-----------------------------------------------------------------------------
(* Array helpers *)

RECURSIVE ReduceSum(_, _)
\* arr.reduce((sum, t) => sum + Number(t.amount), acc)
ReduceSum(arr, acc) ==
    IF arr = <<>> THEN acc ELSE ReduceSum(Tail(arr), acc + Head(arr).amount)

\* transactions.filter(t => t.type === ty)
FilterType(txs, ty) == SelectSeq(txs, LAMBDA t : t.type = ty)

\* mutant: the type filter dropped
SumOfTypeUnfiltered(txs, ty) == ReduceSum(txs, 0)

\* transactions.filter(t => t.type === ty).reduce((sum, t) => sum + Number(t.amount), 0)
SumOfType(txs, ty) == ReduceSum(FilterType(txs, ty), 0)

\* mutant: the type test dropped from the filter
FilterWithCategory(txs) == SelectSeq(txs, LAMBDA t : t.category # Null)

\* transactions.filter(t => t.type === 'expense' && t.category)
FilterExpenseWithCategory(txs) ==
    SelectSeq(txs, LAMBDA t : t.type = "expense" /\ t.category # Null)

\* mutant: a lookup that never finds the key
IndexOfKeyNotFound(map, key) == 0

\* Map.get: index of the entry with this key, 0 when there is none
IndexOfKey(map, key) ==
    IF \E i \in 1..Len(map) : map[i].key = key
    THEN CHOOSE i \in 1..Len(map) : map[i].key = key
    ELSE 0

RECURSIVE InsertSortedTiesFirst(_, _, _)
\* mutant: an unstable sort, which puts x before the elements it ties with
InsertSortedTiesFirst(sorted, x, field) ==
    IF sorted = <<>> THEN <<x>>
    ELSE IF Head(sorted)[field] - x[field] <= 0 THEN <<x>> \o sorted
         ELSE <<Head(sorted)>> \o InsertSortedTiesFirst(Tail(sorted), x, field)

RECURSIVE InsertSorted(_, _, _)
\* x goes before the first element it strictly precedes: compare(x, e) < 0,
\* with compare(a, b) = b[field] - a[field]
InsertSorted(sorted, x, field) ==
    IF sorted = <<>> THEN <<x>>
    ELSE IF Head(sorted)[field] - x[field] < 0 THEN <<x>> \o sorted
         ELSE <<Head(sorted)>> \o InsertSorted(Tail(sorted), x, field)

RECURSIVE SortFrom(_, _, _)
SortFrom(arr, sorted, field) ==
    IF arr = <<>> THEN sorted
    ELSE SortFrom(Tail(arr), InsertSorted(sorted, Head(arr), field), field)

\* arr.sort((a, b) => b[field] - a[field]): Array.prototype.sort is stable
SortDescending(arr, field) == SortFrom(arr, <<>>, field)

-----------------------------------------------------------------------------
(* Dashboard *)

\* mutant: the balance taken from the transactions' income, not the reported one
DashboardStatsBalanceFromSum(txs, mi) ==
    LET income == SumOfType(txs, "income")
        expenses == SumOfType(txs, "expense")
        totalIncome == IF mi > 0 THEN mi ELSE income
    IN  [income |-> totalIncome, expenses |-> expenses, balance |-> income - expenses]

\* Dashboard `stats` memo (profile budget left out: no operation below reads it)
DashboardStats(txs, mi) ==
    LET income == SumOfType(txs, "income")
        expenses == SumOfType(txs, "expense")
        totalIncome == IF mi > 0 THEN mi ELSE income
    IN  [income |-> totalIncome, expenses |-> expenses, balance |-> totalIncome - expenses]

RECURSIVE DashboardCategoryTotalsLastSeen(_, _)
\* mutant: an existing entry takes the category of the transaction added to it
DashboardCategoryTotalsLastSeen(txs, map) ==
    IF txs = <<>> THEN map
    ELSE LET t == Head(txs)
             key == t.category_id[1]
             i == IndexOfKey(map, key)
         IN  DashboardCategoryTotalsLastSeen(Tail(txs),
                 IF i > 0
                 THEN [map EXCEPT ![i].amount = @ + t.amount, ![i].category = t.category[1]]
                 ELSE Append(map, [key |-> key, category |-> t.category[1],
                                   amount |-> t.amount]))

RECURSIVE DashboardCategoryTotals(_, _)
\* expenseTransactions.forEach(...) filling the categoryTotals Map
DashboardCategoryTotals(txs, map) ==
    IF txs = <<>> THEN map
    ELSE LET t == Head(txs)
             key == t.category_id[1]
             i == IndexOfKey(map, key)
         IN  DashboardCategoryTotals(Tail(txs),
                 IF i > 0
                 THEN [map EXCEPT ![i].amount = @ + t.amount]
                 ELSE Append(map, [key |-> key, category |-> t.category[1],
                                   amount |-> t.amount]))

\* mutant: the fraction, not the percentage
DashboardFraction(amount, total) ==
    IF total > 0 THEN JsDiv(amount, total) ELSE Num(0)

\* total > 0 ? (item.amount / total) * 100 : 0
DashboardPercentage(amount, total) ==
    IF total > 0 THEN JsTimes100(JsDiv(amount, total)) ELSE Num(0)

\* Dashboard `categorySpending` memo
DashboardCategorySpending(txs) ==
    LET categoryTotals == DashboardCategoryTotals(FilterExpenseWithCategory(txs), <<>>)
        total == ReduceSum(categoryTotals, 0)
        mapped == [i \in 1..Len(categoryTotals) |->
                     [category |-> categoryTotals[i].category,
                      amount |-> categoryTotals[i].amount,
                      percentage |-> DashboardPercentage(categoryTotals[i].amount, total)]]
    IN  SortDescending(mapped, "amount")

RenderDashboard ==
    /\ page' = "Dashboard"
    /\ stats' = DashboardStats(transactions, monthlyIncome)
    /\ breakdown' = DashboardCategorySpending(transactions)
    /\ netFigure' = stats'.balance
    /\ percentages' = [i \in 1..Len(breakdown') |-> breakdown'[i].percentage]
    /\ pdfTable' = Null
    /\ UNCHANGED <<transactions, monthlyIncome, exportVars, escapeVars, settingsVars, restVars>>

-----------------------------------------------------------------------------
(* Budgets *)

\* Budgets `stats` memo
BudgetsStats(txs) ==
    [expenses |-> SumOfType(txs, "expense"), income |-> SumOfType(txs, "income")]

RECURSIVE BudgetsBreakdownMap(_, _)
\* the forEach filling the `breakdown` Map
BudgetsBreakdownMap(txs, map) ==
    IF txs = <<>> THEN map
    ELSE LET t == Head(txs)
             key == t.category_id[1]
             i == IndexOfKey(map, key)
         IN  BudgetsBreakdownMap(Tail(txs),
                 IF i > 0
                 THEN [map EXCEPT ![i].spent = @ + t.amount]
                 ELSE Append(map, [key |-> key, category |-> t.category[1],
                                   spent |-> t.amount]))

\* Budgets `categoryBreakdown` memo
BudgetsCategoryBreakdown(txs) ==
    LET m == BudgetsBreakdownMap(FilterExpenseWithCategory(txs), <<>>)
    IN  SortDescending([i \in 1..Len(m) |-> [category |-> m[i].category, spent |-> m[i].spent]],
                       "spent")

\* stats.expenses > 0 ? (spent / stats.expenses) * 100 : 0
BudgetsPercentage(spent, expenses) ==
    IF expenses > 0 THEN JsTimes100(JsDiv(spent, expenses)) ELSE Num(0)

\* the 'Net Savings' card: stats.income - stats.expenses
BudgetsNetSavings(st) == st.income - st.expenses

RenderBudgets ==
    /\ page' = "Budgets"
    /\ stats' = BudgetsStats(transactions)
    /\ breakdown' = BudgetsCategoryBreakdown(transactions)
    /\ netFigure' = BudgetsNetSavings(stats')
    /\ percentages' = [i \in 1..Len(breakdown') |->
                         BudgetsPercentage(breakdown'[i].spent, stats'.expenses)]
    /\ pdfTable' = Null
    /\ UNCHANGED <<transactions, monthlyIncome, exportVars, escapeVars, settingsVars, restVars>>

-----------------------------------------------------------------------------
(* MonthlyTracker *)

\* MonthlyTracker `stats` memo
TrackerStats(txs, mi) ==
    LET income == SumOfType(txs, "income")
        expenses == SumOfType(txs, "expense")
        totalIncome == IF mi > 0 THEN mi ELSE income
    IN  [income |-> totalIncome, expenses |-> expenses, savings |-> totalIncome - expenses]

RECURSIVE TrackerGroups(_, _)
\* the forEach filling `groups` (an object: own keys enumerate in insertion order)
TrackerGroups(txs, groups) ==
    IF txs = <<>> THEN groups
    ELSE LET t == Head(txs)
             catId == t.category_id[1]
             i == IndexOfKey(groups, catId)
             g == IF i > 0 THEN groups
                  ELSE Append(groups, [key |-> catId, category |-> t.category[1],
                                       transactions |-> <<>>, total |-> 0])
             j == IF i > 0 THEN i ELSE Len(g)
         IN  TrackerGroups(Tail(txs),
                 [g EXCEPT ![j].transactions = Append(@, t), ![j].total = @ + t.amount])

\* MonthlyTracker `expensesByCategory` memo
ExpensesByCategory(txs) == TrackerGroups(FilterExpenseWithCategory(txs), <<>>)

RenderMonthlyTracker ==
    /\ page' = "MonthlyTracker"
    /\ stats' = TrackerStats(transactions, monthlyIncome)
    /\ breakdown' = ExpensesByCategory(transactions)
    /\ netFigure' = stats'.savings
    /\ percentages' = <<>>
    /\ pdfTable' = Null
    /\ UNCHANGED <<transactions, monthlyIncome, exportVars, escapeVars, settingsVars, restVars>>

-----------------------------------------------------------------------------
(* Reports *)

\* value || fallback on a string: the empty string is falsy
OrElse(value, fallback) == IF value = "" THEN fallback ELSE value

RECURSIVE ReportsCategoryMap(_, _)
\* the forEach filling `categoryMap`
ReportsCategoryMap(txs, map) ==
    IF txs = <<>> THEN map
    ELSE LET t == Head(txs)
             key == t.category_id[1]
             i == IndexOfKey(map, key)
         IN  ReportsCategoryMap(Tail(txs),
                 IF i > 0
                 THEN [map EXCEPT ![i].amount = @ + t.amount]
                 ELSE Append(map, [key |-> key,
                                   name |-> OrElse(t.category[1].name, "Other"),
                                   amount |-> t.amount,
                                   color |-> OrElse(t.category[1].color, "#6b7280")]))

\* Reports `stats` memo (the previous-period and monthly-trend fields are not modelled here)
ReportsStats(txs) ==
    LET income == SumOfType(txs, "income")
        expenses == SumOfType(txs, "expense")
        m == ReportsCategoryMap(FilterExpenseWithCategory(txs), <<>>)
    IN  [income |-> income,
         expenses |-> expenses,
         savings |-> income - expenses,
         categoryBreakdown |->
             SortDescending([i \in 1..Len(m) |->
                                [name |-> m[i].name, amount |-> m[i].amount,
                                 color |-> m[i].color]], "amount"),
         transactionCount |-> Len(txs)]

\* (cat.amount / stats.expenses) * 100, the operand of toFixed(1)
ReportsPercentage(amount, expenses) == JsTimes100(JsDiv(amount, expenses))

\* arr.slice(0, n)
SliceFromStart(arr, n) == SubSeq(arr, 1, IF Len(arr) < n THEN Len(arr) ELSE n)

\* entries shown under 'Top Spending Categories'
TopCategories == 10

RenderReports ==
    /\ page' = "Reports"
    /\ stats' = ReportsStats(transactions)
    /\ breakdown' = stats'.categoryBreakdown
    /\ netFigure' = stats'.savings
    /\ percentages' =
           LET shown == SliceFromStart(stats'.categoryBreakdown, TopCategories)
           IN  [i \in 1..Len(shown) |-> ReportsPercentage(shown[i].amount, stats'.expenses)]
    /\ pdfTable' = Null
    /\ UNCHANGED <<transactions, monthlyIncome, exportVars, escapeVars, settingsVars, restVars>>

\* exportPDF: the rows of the 'Category Breakdown' autoTable
ExportPDF ==
    /\ page = "Reports"
    /\ pdfTable' =
           Some([i \in 1..Len(stats.categoryBreakdown) |->
                    [name |-> stats.categoryBreakdown[i].name,
                     amount |-> stats.categoryBreakdown[i].amount,
                     percentage |-> ReportsPercentage(stats.categoryBreakdown[i].amount,
                                                      stats.expenses)]])
    /\ UNCHANGED <<transactions, monthlyIncome, page, stats, breakdown, netFigure, percentages,
                   exportVars, escapeVars, settingsVars, restVars>>

-----------------------------------------------------------------------------
(* The aggregation pages over every fetched list *)

InitAggregator ==
    /\ transactions \in SeqsUpTo(Transactions, MaxLen)
    /\ monthlyIncome \in MonthlyIncomes
    /\ page = "none"
    /\ stats = Null
    /\ breakdown = <<>>
    /\ netFigure = 0
    /\ percentages = <<>>
    /\ pdfTable = Null
    /\ ExporterIdle
    /\ EscapeIdle
    /\ SettingsIdle
    /\ RestIdle

NextAggregator ==
    \/ RenderDashboard
    \/ RenderBudgets
    \/ RenderMonthlyTracker
    \/ RenderReports
    \/ ExportPDF

SpecAggregator == InitAggregator /\ [][NextAggregator]_vars

-----------------------------------------------------------------------------
(* Strings of the exporter: sequences of characters.  A word without any of  *)
(* the characters , " \n \r & < may stand as one element.                    *)

Comma == ","

Quote == "\""

Newline == "\n"

\* value.includes(ch)
Includes(value, ch) == \E i \in 1..Len(value) : value[i] = ch

RECURSIVE ReplaceAll(_, _, _)
\* value.replace(/ch/g, with)
ReplaceAll(value, ch, with) ==
    IF value = <<>> THEN <<>>
    ELSE (IF Head(value) = ch THEN with ELSE <<Head(value)>>)
             \o ReplaceAll(Tail(value), ch, with)

\* mutant: a carriage return triggers the quoting, a newline does not
escapeCSVOnCarriageReturn(value) ==
    IF Includes(value, Comma) \/ Includes(value, Quote) \/ Includes(value, "\r")
    THEN <<Quote>> \o ReplaceAll(value, Quote, <<Quote, Quote>>) \o <<Quote>>
    ELSE value

escapeCSV(value) ==
    IF Includes(value, Comma) \/ Includes(value, Quote) \/ Includes(value, Newline)
    THEN <<Quote>> \o ReplaceAll(value, Quote, <<Quote, Quote>>) \o <<Quote>>
    ELSE value

RECURSIVE JoinTerminated(_, _)
\* mutant: every part followed by the separator, the last one too
JoinTerminated(parts, sep) ==
    IF parts = <<>> THEN <<>>
    ELSE parts[1] \o <<sep>> \o JoinTerminated(Tail(parts), sep)

RECURSIVE Join(_, _)
\* parts.join(sep)
Join(parts, sep) ==
    IF parts = <<>> THEN <<>>
    ELSE IF Len(parts) = 1 THEN parts[1]
         ELSE parts[1] \o <<sep>> \o Join(Tail(parts), sep)

\* the calendar days the model's dates range over, in order; each stored date
\* used below has its previous calendar day before it
IsoDate == <<"2023-12-31", "2024-01-01", "2024-02-29", "2024-03-01">>

\* format(new Date(date), 'yyyy-MM-dd') for a stored 'yyyy-MM-dd' date: the
\* string is parsed as midnight UTC and formatted in the browser's time zone
FormatStoredDate(day, tz) == <<IsoDate[IF tz < 0 THEN day - 1 ELSE day]>>

\* format(new Date(), 'yyyy-MM-dd')
FormatToday(day) == <<IsoDate[day]>>

\* String(n) of an integer amount
NumberToString(n) == <<ToString(n)>>

\* text || fallback on an optional string: null and the empty string are falsy
TextOr(opt, fallback) == IF opt = Null \/ opt = Some(<<>>) THEN fallback ELSE opt[1]

-----------------------------------------------------------------------------
(* lib/exportUtils *)

Headers ==
    << <<"Date">>, <<"Type">>, <<"Category">>, <<"Amount">>, <<"Description">>,
       <<"Recurring">>, <<"Frequency">> >>

\* mutant: t.category?.name ?? 'Uncategorized', an empty name kept
CategoryNameNullish(t) ==
    IF t.category = Null THEN <<"Uncategorized">> ELSE t.category[1].name

\* t.category?.name || 'Uncategorized'
CategoryName(t) ==
    IF t.category = Null THEN <<"Uncategorized">>
    ELSE TextOr(Some(t.category[1].name), <<"Uncategorized">>)

\* the row exportToCSV builds for a transaction
CsvRow(t, tz) ==
    << FormatStoredDate(t.date, tz),
       <<t.type>>,
       CategoryName(t),
       NumberToString(t.amount),
       TextOr(t.description, <<>>),
       IF t.is_recurring THEN <<"Yes">> ELSE <<"No">>,
       TextOr(t.recurring_frequency, <<>>) >>

EscapeRow(row) == [i \in 1..Len(row) |-> escapeCSV(row[i])]

\* csvContent
CsvContent(txs, tz) ==
    LET rows == [i \in 1..Len(txs) |-> CsvRow(txs[i], tz)]
    IN  Join(<<Join(EscapeRow(Headers), Comma)>>
                 \o [i \in 1..Len(rows) |-> Join(EscapeRow(rows[i]), Comma)],
             Newline)

\* mutant: the two replacements in the other order
EscapeXmlLtFirst(text) ==
    ReplaceAll(ReplaceAll(text, "<", <<"&", "l", "t", ";">>), "&", <<"&", "a", "m", "p", ";">>)

\* String(cell).replace(/&/g, '&amp;').replace(/</g, '&lt;')
EscapeXml(text) ==
    ReplaceAll(ReplaceAll(text, "&", <<"&", "a", "m", "p", ";">>), "<", <<"&", "l", "t", ";">>)

\* the <Row> of header cells
XmlHeaderRow ==
    [i \in 1..Len(Headers) |-> [style |-> "header", type |-> "String", data |-> Headers[i]]]

\* mutant: the style keyed on the cell after the Type cell
XmlDataRowStyleOffByOne(row) ==
    [i \in 1..Len(row) |->
        IF i = 4
        THEN [style |-> IF row[3] = <<"income">> THEN "income" ELSE "expense",
              type |-> "Number", data |-> row[i]]
        ELSE [style |-> "", type |-> "String", data |-> EscapeXml(row[i])]]

\* the <Row> written for a data row; row[i] is the i-th cell, i counted from 1
XmlDataRow(row) ==
    [i \in 1..Len(row) |->
        IF i = 4
        THEN [style |-> IF row[2] = <<"income">> THEN "income" ELSE "expense",
              type |-> "Number", data |-> row[i]]
        ELSE [style |-> "", type |-> "String", data |-> EscapeXml(row[i])]]

\* the row exportToExcel builds for a transaction: the amount is kept a number
\* until the template literal writes it, as String(t.amount) does
ExcelRow(t, tz) == CsvRow(t, tz)

\* the <Table> of the workbook exportToExcel writes: its rows of cells (the
\* markup around them is fixed text)
XmlTable(txs, tz) ==
    <<XmlHeaderRow>> \o [i \in 1..Len(txs) |-> XmlDataRow(ExcelRow(txs[i], tz))]

\* mutant: the date of the call written into a supplied filename too
FilenameDated(filename, day, ext) ==
    TextOr(filename, <<"transactions">>) \o <<"-">> \o FormatToday(day) \o <<ext>>

\* mutant: filename ?? ..., an empty filename kept
FilenameOrNullish(filename, day, ext) ==
    IF filename = Null THEN <<"transactions-">> \o FormatToday(day) \o <<ext>>
    ELSE filename[1]

\* filename || `transactions-${format(new Date(), 'yyyy-MM-dd')}${ext}`
FilenameOr(filename, day, ext) ==
    TextOr(filename, <<"transactions-">> \o FormatToday(day) \o <<ext>>)

\* mutant: the empty-list guard left out
exportToCSVUnguarded(txs, filename, tz, day) ==
    << [content |-> CsvContent(txs, tz),
        mimeType |-> "text/csv;charset=utf-8;",
        filename |-> FilenameOr(filename, day, ".csv")] >>

\* the downloadBlob calls exportToCSV(txs, filename) makes
exportToCSV(txs, filename, tz, day) ==
    IF Len(txs) = 0 THEN <<>>
    ELSE << [content |-> CsvContent(txs, tz),
             mimeType |-> "text/csv;charset=utf-8;",
             filename |-> FilenameOr(filename, day, ".csv")] >>

\* the downloadBlob calls exportToExcel(txs, filename) makes
exportToExcel(txs, filename, tz, day) ==
    IF Len(txs) = 0 THEN <<>>
    ELSE << [content |-> XmlTable(txs, tz),
             mimeType |-> "application/vnd.ms-excel",
             filename |-> FilenameOr(filename, day, ".xls")] >>

-----------------------------------------------------------------------------
(* Transactions page export handlers, and the exporters called directly *)

\* exporter invocations a behaviour may make
MaxCalls == 1

\* longest exported list
MaxExportLen == 2

ExportTx(date, type, category, amount, description, recurring, frequency) ==
    [date |-> date, type |-> type, category |-> category, amount |-> amount,
     description |-> description, is_recurring |-> recurring,
     recurring_frequency |-> frequency]

\* the rows the exported lists are made of
ExportTransactions ==
    { ExportTx(4, "income", Some([name |-> <<"Salary">>]), 200, Null, TRUE,
               Some(<<"monthly">>)),
      ExportTx(4, "expense", Some([name |-> <<"Food">>]), 12,
               Some(<<"He said", ",", " ", "\"", "hi", "\"">>), FALSE, Null),
      ExportTx(2, "expense", Null, 0, Some(<<"a", "<", "b", "&", "c">>), FALSE, Null),
      ExportTx(2, "expense", Some([name |-> <<"R", "&", "D", ",", " ", "Inc">>]), 5,
               Some(<<"line1", "\n", "line2">>), TRUE, Null),
      ExportTx(4, "income", Null, 7, Some(<<"cr", "\r", "lf">>), FALSE, Some(<<>>)),
      ExportTx(2, "expense", Some([name |-> <<>>]), -3, Some(<<>>), TRUE,
               Some(<<"weekly">>)) }

\* the optional filename argument
Filenames == {Null, Some(<<>>), Some(<<"backup">>)}

HandleExportCSV ==
    /\ Len(invoked) < callLimit
    /\ IF Len(filteredTransactions) = 0
       THEN /\ toast' = Some([kind |-> "error", count |-> 0,
                              text |-> "No transactions to export"])
            /\ UNCHANGED <<sink, invoked>>
       ELSE /\ sink' = sink \o exportToCSV(filteredTransactions, Null, timeZone, today)
            /\ invoked' = Append(invoked, [fn |-> "exportToCSV", from |-> "handleExportCSV",
                                           filename |-> Null, day |-> today])
            /\ toast' = Some([kind |-> "success", count |-> Len(filteredTransactions),
                              text |-> "Exported transactions as CSV"])
    /\ UNCHANGED <<filteredTransactions, timeZone, today, callLimit, aggVars, escapeVars, settingsVars, restVars>>

HandleExportExcel ==
    /\ Len(invoked) < callLimit
    /\ IF Len(filteredTransactions) = 0
       THEN /\ toast' = Some([kind |-> "error", count |-> 0,
                              text |-> "No transactions to export"])
            /\ UNCHANGED <<sink, invoked>>
       ELSE /\ sink' = sink \o exportToExcel(filteredTransactions, Null, timeZone, today)
            /\ invoked' = Append(invoked, [fn |-> "exportToExcel", from |-> "handleExportExcel",
                                           filename |-> Null, day |-> today])
            /\ toast' = Some([kind |-> "success", count |-> Len(filteredTransactions),
                              text |-> "Exported transactions as Excel"])
    /\ UNCHANGED <<filteredTransactions, timeZone, today, callLimit, aggVars, escapeVars, settingsVars, restVars>>

\* exportToCSV(list, filename) called by any other caller
CallExportToCSV(filename) ==
    /\ Len(invoked) < callLimit
    /\ sink' = sink \o exportToCSV(filteredTransactions, filename, timeZone, today)
    /\ invoked' = Append(invoked, [fn |-> "exportToCSV", from |-> "caller",
                                   filename |-> filename, day |-> today])
    /\ UNCHANGED <<filteredTransactions, timeZone, today, callLimit, toast, aggVars, escapeVars, settingsVars, restVars>>

\* exportToExcel(list, filename) called by any other caller
CallExportToExcel(filename) ==
    /\ Len(invoked) < callLimit
    /\ sink' = sink \o exportToExcel(filteredTransactions, filename, timeZone, today)
    /\ invoked' = Append(invoked, [fn |-> "exportToExcel", from |-> "caller",
                                   filename |-> filename, day |-> today])
    /\ UNCHANGED <<filteredTransactions, timeZone, today, callLimit, toast, aggVars, escapeVars, settingsVars, restVars>>

InitExporter ==
    /\ filteredTransactions \in SeqsUpTo(ExportTransactions, MaxExportLen)
    /\ timeZone \in {-1, 0, 1}
    /\ today = 3
    /\ sink = <<>>
    /\ invoked = <<>>
    /\ callLimit = MaxCalls
    /\ toast = Null
    /\ AggregatorIdle
    /\ EscapeIdle
    /\ SettingsIdle
    /\ RestIdle

NextExporter ==
    \/ HandleExportCSV
    \/ HandleExportExcel
    \/ \E filename \in Filenames : CallExportToCSV(filename)
    \/ \E filename \in Filenames : CallExportToExcel(filename)

SpecExporter == InitExporter /\ [][NextExporter]_vars

-----------------------------------------------------------------------------
(* Repeated invocations of the exporters, with the browser's clock running *)

\* exporter invocations a behaviour of repeated exports may make
MaxRepeats == 2

\* the lists exported repeatedly: the empty one and each single row
RepeatedLists == {<<>>} \cup {<<t>> : t \in ExportTransactions}

\* midnight passes in the browser's time zone: new Date() is on the next day
DayPasses ==
    /\ today < Len(IsoDate)
    /\ today' = today + 1
    /\ UNCHANGED <<filteredTransactions, timeZone, sink, invoked, callLimit, toast,
                   aggVars, escapeVars, settingsVars, restVars>>

InitRepeat ==
    /\ filteredTransactions \in RepeatedLists
    /\ timeZone \in {-1, 0, 1}
    /\ today = 3
    /\ sink = <<>>
    /\ invoked = <<>>
    /\ callLimit = MaxRepeats
    /\ toast = Null
    /\ AggregatorIdle
    /\ EscapeIdle
    /\ SettingsIdle
    /\ RestIdle

NextRepeat ==
    \/ NextExporter
    \/ DayPasses

SpecRepeat == InitRepeat /\ [][NextRepeat]_vars

-----------------------------------------------------------------------------
(* escapeCSV over every short string *)

\* longest string handed to escapeCSV
MaxStrLen == 3

CsvChars == {"a", Comma, Quote, Newline, "\r"}

EscapeField ==
    /\ csvField' = Some(escapeCSV(csvValue))
    /\ UNCHANGED <<csvValue, aggVars, exportVars, settingsVars, restVars>>

InitEscape ==
    /\ csvValue \in SeqsUpTo(CsvChars, MaxStrLen)
    /\ csvField = Null
    /\ AggregatorIdle
    /\ ExporterIdle
    /\ SettingsIdle
    /\ RestIdle

NextEscape == EscapeField

SpecEscape == InitEscape /\ [][NextEscape]_vars

-----------------------------------------------------------------------------
(* Settings page: the category list, the category dialog and the deletion *)
(* of a category, over the rows of categories, transactions and budgets   *)

\* addCategory / updateCategory / deleteCategory calls a behaviour may make
MaxHookCalls == 2

CategoryGroups == {"fixed", "variable", "transfers"}

CategoryRow(id, name, icon, color, type, group, default) ==
    [id |-> id, name |-> name, icon |-> icon, color |-> color, type |-> type,
     category_group |-> group, is_default |-> default]

\* the categories at the start: two of the rows handle_new_user seeds and one
\* the user added, whose group is 'variable' or was never set
SeededCategories ==
    << CategoryRow(1, "Salary", "briefcase", "#10b981", "income", Some("variable"), TRUE),
       CategoryRow(2, "Rent", "home", "#ef4444", "expense", Some("fixed"), TRUE) >>

UserCategories ==
    { CategoryRow(3, "Pets", "heart", "#ec4899", "expense", g, FALSE) :
        g \in {Null, Some("variable")} }

DbTx(id, categoryId, type, amount) ==
    [id |-> id, category_id |-> categoryId, type |-> type, amount |-> amount]

\* the transactions at the start: each refers to a seeded category, to the
\* user's category or to none
StoredTransactions ==
    { << DbTx(1, c, "expense", 12), DbTx(2, Some(2), "expense", 30),
         DbTx(3, Some(3), "income", 5) >> : c \in {Null, Some(2), Some(3)} }

\* the budgets at the start: one on a seeded category, one on the user's
StoredBudgets ==
    << [id |-> 1, category_id |-> Some(2), amount |-> 100],
       [id |-> 2, category_id |-> Some(3), amount |-> 50] >>

\* categoryForm's defaultValues, and what openAddCategory resets it to
FormDefaults ==
    [name |-> "", icon |-> "tag", color |-> "#6366f1", type |-> "expense",
     category_group |-> "variable"]

\* what the user may have changed the form's fields to before submitting
TypedForms ==
    { [name |-> "", icon |-> "tag", color |-> "#6366f1", type |-> "expense",
       category_group |-> "variable"],
      [name |-> "Gifts", icon |-> "gift", color |-> "#22c55e", type |-> "income",
       category_group |-> "transfers"] }

RECURSIVE SelectRows(_, _, _)
\* rows.filter(r => r[field] === value), for a field and an optional value
SelectRows(rows, field, values) ==
    IF rows = <<>> THEN <<>>
    ELSE (IF Head(rows)[field] \in values THEN <<Head(rows)>> ELSE <<>>)
             \o SelectRows(Tail(rows), field, values)

fixedCategories == SelectRows(categories, "category_group", {Some("fixed")})

variableCategories == SelectRows(categories, "category_group", {Some("variable"), Null})

transferCategories == SelectRows(categories, "category_group", {Some("transfers")})

incomeCategories == SelectRows(categories, "type", {"income"})

\* the rows renderCategoryList draws, over the four lists of the card
RenderedCategories ==
    fixedCategories \o variableCategories \o transferCategories \o incomeCategories

\* the id the database gives the next inserted category (gen_random_uuid)
NewCategoryId ==
    Len(SeededCategories) + 2
        + Cardinality({i \in 1..Len(hookCalls) :
                          hookCalls[i].hook = "addCategory" /\ hookCalls[i].ok})

\* the rows that do not refer to category id
RowsNotReferring(rows, id) ==
    SelectRows(rows, "category_id", {rows[i].category_id : i \in 1..Len(rows)} \ {Some(id)})

\* mutant: ON DELETE CASCADE on transactions.category_id
TransactionsAfterCascade(rows, id) == RowsNotReferring(rows, id)

\* transactions after DELETE FROM categories WHERE id = ...: ON DELETE SET NULL
TransactionsAfterDelete(rows, id) ==
    [i \in 1..Len(rows) |->
        IF rows[i].category_id = Some(id) THEN [rows[i] EXCEPT !.category_id = Null]
        ELSE rows[i]]

\* budgets after the same DELETE: ON DELETE CASCADE
BudgetsAfterDelete(rows, id) == RowsNotReferring(rows, id)

\* categories after DELETE FROM categories WHERE id = ...
CategoriesAfterDelete(rows, id) ==
    SelectRows(rows, "id", {rows[i].id : i \in 1..Len(rows)} \ {id})

\* categories after UPDATE categories SET name, icon, color, type,
\* category_group WHERE id = ...
CategoriesAfterUpdate(rows, id, data) ==
    [i \in 1..Len(rows) |->
        IF rows[i].id = id
        THEN [rows[i] EXCEPT !.name = data.name, !.icon = data.icon, !.color = data.color,
                             !.type = data.type,
                             !.category_group = Some(data.category_group)]
        ELSE rows[i]]

\* categories after INSERT INTO categories (name, icon, color, type,
\* category_group): is_default takes its DEFAULT false
CategoriesAfterInsert(rows, id, data) ==
    Append(rows, CategoryRow(id, data.name, data.icon, data.color, data.type,
                             Some(data.category_group), FALSE))

\* the values openEditCategory resets the form to
FormOf(category) ==
    [name |-> category.name, icon |-> category.icon, color |-> category.color,
     type |-> category.type,
     category_group |-> IF category.category_group = Null THEN "variable"
                        ELSE category.category_group[1]]

\* categorySchema: name is 1 to 50 characters long (the modelled names are short)
ValidForm(data) == data.name # ""

\* the pencil button of a drawn category
OpenEditCategory(category) ==
    /\ editingCategory' = Some(category)
    /\ categoryForm' = FormOf(category)
    /\ categoryDialogOpen' = TRUE
    /\ UNCHANGED <<categories, dbTransactions, budgets, deletingCategory, hookCalls,
                   settingsToast, aggVars, exportVars, escapeVars, restVars>>

\* mutant: the 'Add Category' button leaves editingCategory as it is
OpenAddCategoryKeepsEditing ==
    /\ categoryForm' = FormDefaults
    /\ categoryDialogOpen' = TRUE
    /\ UNCHANGED <<categories, dbTransactions, budgets, editingCategory, deletingCategory,
                   hookCalls, settingsToast, aggVars, exportVars, escapeVars, restVars>>

\* the 'Add Category' button
OpenAddCategory ==
    /\ editingCategory' = Null
    /\ categoryForm' = FormDefaults
    /\ categoryDialogOpen' = TRUE
    /\ UNCHANGED <<categories, dbTransactions, budgets, deletingCategory, hookCalls,
                   settingsToast, aggVars, exportVars, escapeVars, restVars>>

\* the dialog dismissed: onOpenChange = setCategoryDialogOpen
CloseCategoryDialog ==
    /\ categoryDialogOpen
    /\ categoryDialogOpen' = FALSE
    /\ UNCHANGED <<categories, dbTransactions, budgets, editingCategory, deletingCategory,
                   categoryForm, hookCalls, settingsToast, aggVars, exportVars, escapeVars, restVars>>

\* the form submitted with values `data`: handleSubmit validates them and calls
\* onCategorySubmit, whose mutation succeeds (ok) or is rejected
SubmitCategoryForm(data, ok) ==
    /\ categoryDialogOpen
    /\ ValidForm(data)
    /\ Len(hookCalls) < MaxHookCalls
    /\ IF editingCategory # Null
       THEN /\ hookCalls' = Append(hookCalls, [hook |-> "updateCategory",
                                               id |-> editingCategory[1].id, ok |-> ok])
            /\ categories' = IF ok THEN CategoriesAfterUpdate(categories, editingCategory[1].id, data)
                             ELSE categories
            /\ settingsToast' = Some(IF ok THEN "Category updated" ELSE "Something went wrong")
       ELSE /\ hookCalls' = Append(hookCalls, [hook |-> "addCategory",
                                               id |-> NewCategoryId, ok |-> ok])
            /\ categories' = IF ok THEN CategoriesAfterInsert(categories, NewCategoryId, data)
                             ELSE categories
            /\ settingsToast' = Some(IF ok THEN "Category added" ELSE "Something went wrong")
    /\ IF ok
       THEN /\ categoryDialogOpen' = FALSE
            /\ editingCategory' = Null
       ELSE UNCHANGED <<categoryDialogOpen, editingCategory>>
    /\ UNCHANGED <<dbTransactions, budgets, deletingCategory, categoryForm,
                   aggVars, exportVars, escapeVars, restVars>>

\* mutant: the trash button drawn for every category
RequestDeleteAnyCategory(category) ==
    /\ deletingCategory' = Some(category)
    /\ UNCHANGED <<categories, dbTransactions, budgets, categoryDialogOpen, editingCategory,
                   categoryForm, hookCalls, settingsToast, aggVars, exportVars, escapeVars, restVars>>

\* the trash button of a drawn category, drawn when it is not a default one
RequestDeleteCategory(category) ==
    /\ ~category.is_default
    /\ deletingCategory' = Some(category)
    /\ UNCHANGED <<categories, dbTransactions, budgets, categoryDialogOpen, editingCategory,
                   categoryForm, hookCalls, settingsToast, aggVars, exportVars, escapeVars, restVars>>

\* the confirmation dismissed: onOpenChange(false)
CancelDeleteCategory ==
    /\ deletingCategory # Null
    /\ deletingCategory' = Null
    /\ UNCHANGED <<categories, dbTransactions, budgets, categoryDialogOpen, editingCategory,
                   categoryForm, hookCalls, settingsToast, aggVars, exportVars, escapeVars, restVars>>

\* handleDeleteCategory, whose mutation succeeds (ok) or is rejected
HandleDeleteCategory(ok) ==
    /\ deletingCategory # Null
    /\ Len(hookCalls) < MaxHookCalls
    /\ hookCalls' = Append(hookCalls, [hook |-> "deleteCategory",
                                       id |-> deletingCategory[1].id, ok |-> ok])
    /\ IF ok
       THEN /\ categories' = CategoriesAfterDelete(categories, deletingCategory[1].id)
            /\ dbTransactions' = TransactionsAfterDelete(dbTransactions, deletingCategory[1].id)
            /\ budgets' = BudgetsAfterDelete(budgets, deletingCategory[1].id)
            /\ settingsToast' = Some("Category deleted")
            /\ deletingCategory' = Null
       ELSE /\ settingsToast' = Some("Failed to delete category")
            /\ UNCHANGED <<categories, dbTransactions, budgets, deletingCategory>>
    /\ UNCHANGED <<categoryDialogOpen, editingCategory, categoryForm,
                   aggVars, exportVars, escapeVars, restVars>>

InitSettings ==
    /\ \E user \in UserCategories : categories = Append(SeededCategories, user)
    /\ dbTransactions \in StoredTransactions
    /\ budgets = StoredBudgets
    /\ categoryDialogOpen = FALSE
    /\ editingCategory = Null
    /\ deletingCategory = Null
    /\ categoryForm = FormDefaults
    /\ hookCalls = <<>>
    /\ settingsToast = Null
    /\ AggregatorIdle
    /\ ExporterIdle
    /\ EscapeIdle
    /\ RestIdle

NextSettings ==
    \/ \E i \in 1..Len(RenderedCategories) : OpenEditCategory(RenderedCategories[i])
    \/ OpenAddCategory
    \/ CloseCategoryDialog
    \/ \E data \in TypedForms \cup {categoryForm}, ok \in BOOLEAN : SubmitCategoryForm(data, ok)
    \/ \E i \in 1..Len(RenderedCategories) : RequestDeleteCategory(RenderedCategories[i])
    \/ CancelDeleteCategory
    \/ \E ok \in BOOLEAN : HandleDeleteCategory(ok)

SpecSettings == InitSettings /\ [][NextSettings]_vars

-----------------------------------------------------------------------------
(* Reference quantities of the fetched list, used to state the properties *)

IncomeIdx == {i \in 1..Len(transactions) : transactions[i].type = "income"}

ExpenseIdx == {i \in 1..Len(transactions) : transactions[i].type = "expense"}

\* expense transactions that have a category
CategorizedIdx == {i \in ExpenseIdx : transactions[i].category # Null}

UncategorizedIdx == ExpenseIdx \ CategorizedIdx

RECURSIVE SumAt(_)
\* sum of the amounts at a set of positions
SumAt(I) ==
    IF I = {} THEN 0
    ELSE LET i == CHOOSE j \in I : TRUE IN transactions[i].amount + SumAt(I \ {i})

CategoryIds == {transactions[i].category_id[1] : i \in CategorizedIdx}

IdxOf(c) == {i \in CategorizedIdx : transactions[i].category_id[1] = c}

FirstIdx(c) == CHOOSE i \in IdxOf(c) : \A j \in IdxOf(c) : i <= j

LastIdx(c) == CHOOSE i \in IdxOf(c) : \A j \in IdxOf(c) : j <= i

\* position of category c when ordered by amount descending, ties by first encounter
Rank(c) ==
    1 + Cardinality({d \in CategoryIds :
                        \/ SumAt(IdxOf(d)) > SumAt(IdxOf(c))
                        \/ SumAt(IdxOf(d)) = SumAt(IdxOf(c)) /\ FirstIdx(d) < FirstIdx(c)})

SummaryPages == {"Dashboard", "Budgets", "MonthlyTracker", "Reports"}

PercentagePages == {"Dashboard", "Budgets", "Reports"}

\* the amount field of a breakdown entry of the current page
EntryAmount(e) ==
    CASE page = "Budgets" -> e.spent
      [] page = "MonthlyTracker" -> e.total
      [] OTHER -> e.amount

\* the category a Reports entry (name, amount, color) was built for
CategoryIdOfName(name) ==
    CHOOSE c \in {"c1", "c2"} :
        \E cat \in {Food, Blank, Rent} : cat.id = c /\ OrElse(cat.name, "Other") = name

\* the category id a breakdown entry of the current page stands for
EntryCategoryId(e) ==
    IF page = "Reports" THEN CategoryIdOfName(e.name) ELSE e.category.id

\* the entry shows this joined category's name and color
EntryShows(e, cat) ==
    IF page = "Reports"
    THEN e.name = OrElse(cat.name, "Other") /\ e.color = OrElse(cat.color, "#6b7280")
    ELSE e.category = cat

RECURSIVE SumEntries(_)
SumEntries(entries) ==
    IF entries = <<>> THEN 0 ELSE EntryAmount(Head(entries)) + SumEntries(Tail(entries))

\* every percentage the current page has computed (the PDF table's included)
AllPercentages ==
    {percentages[i] : i \in 1..Len(percentages)}
        \cup (IF pdfTable = Null THEN {}
              ELSE {pdfTable[1][i].percentage : i \in 1..Len(pdfTable[1])})

\* the data model's invariant on the fetched rows: amount >= 0
AmountsNotNegative == \A i \in 1..Len(transactions) : transactions[i].amount >= 0

IsPercent(p, a, d) == p.kind = "finite" /\ p.num * d = 100 * a * p.den

-----------------------------------------------------------------------------
(* Properties *)

\* C1 (as claimed): on every summary page the reported total income is the sum
\* of the income amounts and the reported total expense the sum of the expense
\* amounts.
C1_TotalsAsClaimed ==
    page \in SummaryPages =>
        /\ stats.income = SumAt(IncomeIdx)
        /\ stats.expenses = SumAt(ExpenseIdx)

\* C1 (amended): Budgets and Reports report the sum of the income amounts;
\* Dashboard and MonthlyTracker report the recorded monthly income when it is
\* greater than 0 and the sum of the income amounts otherwise; all four report
\* the sum of the expense amounts (so 0 for the empty list).
C1_Totals ==
    /\ page \in {"Budgets", "Reports"} => stats.income = SumAt(IncomeIdx)
    /\ page \in {"Dashboard", "MonthlyTracker"} =>
           stats.income = IF monthlyIncome > 0 THEN monthlyIncome ELSE SumAt(IncomeIdx)
    /\ page \in SummaryPages => stats.expenses = SumAt(ExpenseIdx)
    /\ page \in SummaryPages /\ transactions = <<>> =>
           /\ stats.expenses = 0
           /\ monthlyIncome <= 0 \/ page \in {"Budgets", "Reports"} => stats.income = 0

C1_Witness ==
    /\ page = "Dashboard"
    /\ monthlyIncome > 0
    /\ IncomeIdx # {}
    /\ ExpenseIdx # {}
    /\ stats.income # SumAt(IncomeIdx)

\* C2: the net figure a summary page shows is the total income it reports minus
\* the total expense it reports.
C2_NetIsIncomeMinusExpense ==
    page \in SummaryPages => netFigure = stats.income - stats.expenses

C2_Witness ==
    /\ page = "Dashboard"
    /\ monthlyIncome > 0
    /\ IncomeIdx # {}
    /\ ExpenseIdx # {}
    /\ netFigure # SumAt(IncomeIdx) - SumAt(ExpenseIdx)

\* C3 (as claimed): the breakdown amounts sum to total expense when every
\* expense has a category, and to at most total expense otherwise.
C3_BreakdownSumAsClaimed ==
    page \in SummaryPages =>
        /\ UncategorizedIdx = {} => SumEntries(breakdown) = SumAt(ExpenseIdx)
        /\ UncategorizedIdx # {} => SumEntries(breakdown) <= SumAt(ExpenseIdx)

\* C3 (amended): the breakdown amounts sum to total expense minus the amounts of
\* the expenses without a category: equal to total expense when every expense
\* has one, and at most total expense when the amounts of those without one are
\* not negative.
C3_BreakdownSum ==
    page \in SummaryPages =>
        /\ SumEntries(breakdown) = SumAt(ExpenseIdx) - SumAt(UncategorizedIdx)
        /\ UncategorizedIdx = {} => SumEntries(breakdown) = SumAt(ExpenseIdx)
        /\ (\A i \in UncategorizedIdx : transactions[i].amount >= 0) =>
               SumEntries(breakdown) <= SumAt(ExpenseIdx)

C3_Witness ==
    /\ page = "Reports"
    /\ \E i \in UncategorizedIdx : transactions[i].amount > 0
    /\ Len(breakdown) > 0
    /\ SumEntries(breakdown) < stats.expenses

\* C4 (as claimed), for lists that keep the data model's amount >= 0: on
\* Dashboard, Budgets and Reports every entry's percentage is
\* 100 * categoryAmount / totalExpense, totalExpense being the sum over all
\* expense transactions, those without a category included.
C4_PercentageAsClaimed ==
    page \in PercentagePages /\ AmountsNotNegative /\ SumAt(ExpenseIdx) > 0 =>
        \A i \in 1..Len(percentages) :
            IsPercent(percentages[i], EntryAmount(breakdown[i]), SumAt(ExpenseIdx))

\* C4 (amended): every entry's percentage is 100 * categoryAmount / D whenever
\* D > 0, where D is the sum over all expense transactions (those without a
\* category included) in the Budgets breakdown and the Reports category list,
\* and the sum over the expense transactions that have a category in the
\* Dashboard category spending.
C4_Percentage ==
    /\ page \in {"Budgets", "Reports"} /\ SumAt(ExpenseIdx) > 0 =>
           \A i \in 1..Len(percentages) :
               IsPercent(percentages[i], EntryAmount(breakdown[i]), SumAt(ExpenseIdx))
    /\ page = "Dashboard" /\ SumAt(CategorizedIdx) > 0 =>
           \A i \in 1..Len(percentages) :
               IsPercent(percentages[i], EntryAmount(breakdown[i]), SumAt(CategorizedIdx))
    /\ page \in {"Dashboard", "Budgets"} => Len(percentages) = Len(breakdown)
    /\ page = "Reports" =>
           Len(percentages) = IF Len(breakdown) < TopCategories THEN Len(breakdown)
                              ELSE TopCategories

C4_Witness ==
    /\ page = "Dashboard"
    /\ \E i \in UncategorizedIdx : transactions[i].amount > 0
    /\ Len(percentages) > 0
    /\ SumAt(CategorizedIdx) > 0
    /\ JsEq(percentages[1], Num(100))

\* C5 (as claimed), for lists that keep the data model's amount >= 0: when
\* total expense is 0 every percentage computed on Dashboard, Budgets and
\* Reports (the on-screen list and the PDF table) is 0, and when it is greater
\* than 0 every one lies in [0, 100].
C5_PercentageBoundsAsClaimed ==
    /\ page \in PercentagePages
    /\ AmountsNotNegative
    => /\ SumAt(ExpenseIdx) = 0 => \A p \in AllPercentages : JsEq(p, Num(0))
       /\ SumAt(ExpenseIdx) > 0 =>
              \A p \in AllPercentages :
                  p.kind = "finite" /\ 0 <= p.num /\ p.num <= 100 * p.den

\* C6: on Dashboard, Budgets and Reports the breakdown is ordered by amount
\* descending, and categories with equal amounts keep the order of their first
\* encounter in the input list.
C6_SortedStable ==
    page \in PercentagePages =>
        /\ \A i, j \in 1..Len(breakdown) :
               i < j => EntryAmount(breakdown[i]) >= EntryAmount(breakdown[j])
        /\ \A c \in CategoryIds :
               /\ Rank(c) \in 1..Len(breakdown)
               /\ EntryCategoryId(breakdown[Rank(c)]) = c
               /\ EntryAmount(breakdown[Rank(c)]) = SumAt(IdxOf(c))

C6_Witness ==
    /\ page = "Budgets"
    /\ Len(breakdown) = 2
    /\ breakdown[1].spent = breakdown[2].spent
    /\ breakdown[1].category.id = "c2"
    /\ FirstIdx("c2") < FirstIdx("c1")

\* C7: the breakdown has exactly one entry per distinct category id among the
\* expense transactions that have a category; income transactions and expenses
\* without a category contribute to no entry; each entry's amount is the sum of
\* the amounts of the expense transactions with that category id.
C7_OneEntryPerCategory ==
    page \in SummaryPages =>
        /\ Len(breakdown) = Cardinality(CategoryIds)
        /\ \A i \in 1..Len(breakdown) : EntryCategoryId(breakdown[i]) \in CategoryIds
        /\ \A c \in CategoryIds :
               \E i \in 1..Len(breakdown) :
                   /\ EntryCategoryId(breakdown[i]) = c
                   /\ EntryAmount(breakdown[i]) = SumAt(IdxOf(c))
                   /\ \A j \in 1..Len(breakdown) :
                          EntryCategoryId(breakdown[j]) = c => j = i

C7_Witness ==
    /\ page = "MonthlyTracker"
    /\ Len(transactions) = 2
    /\ Cardinality(IdxOf("c1")) = 2
    /\ Len(breakdown) = 1
    /\ breakdown[1].total = 3

\* C8 (as claimed), for lists that keep the data model's amount >= 0: when
\* several expense transactions share a category id but carry different joined
\* metadata, the entry carries the metadata of the last of them in input order.
C8_MetadataLastSeenAsClaimed ==
    page \in SummaryPages /\ AmountsNotNegative =>
        \A i \in 1..Len(breakdown) :
            EntryShows(breakdown[i],
                       transactions[LastIdx(EntryCategoryId(breakdown[i]))].category[1])

\* C8 (amended): when several expense transactions share a category id but
\* carry different joined metadata, the entry carries the metadata of the first
\* of them in input order (Reports showing 'Other' for an empty name and
\* '#6b7280' for an empty color).
C8_MetadataFirstSeen ==
    page \in SummaryPages =>
        \A i \in 1..Len(breakdown) :
            EntryShows(breakdown[i],
                       transactions[FirstIdx(EntryCategoryId(breakdown[i]))].category[1])

C8_Witness ==
    /\ page = "Dashboard"
    /\ Cardinality(IdxOf("c1")) = 2
    /\ transactions[FirstIdx("c1")].category # transactions[LastIdx("c1")].category
    /\ Len(breakdown) = 1
    /\ breakdown[1].category = Food

\* C9: exporting an empty list never reaches the Sink: exportToCSV and
\* exportToExcel return without a downloadBlob call, and the Transactions page
\* handlers call neither exporter and show an error message instead.
C9_EmptyExportNoSink ==
    Len(filteredTransactions) = 0 =>
        /\ sink = <<>>
        /\ \A i \in 1..Len(invoked) : invoked[i].from = "caller"
        /\ toast # Null => toast[1].kind = "error"

C9_Witness ==
    /\ Len(filteredTransactions) = 0
    /\ Len(invoked) = 1
    /\ invoked[1].fn = "exportToCSV"
    /\ toast # Null
    /\ sink = <<>>

\* s contains a comma, a double quote or a newline
HasTrigger(s) == \E i \in 1..Len(s) : s[i] \in {Comma, Quote, Newline}

\* number of double quotes of s before position i
QuotesBefore(s, i) == Cardinality({j \in 1..(i - 1) : s[j] = Quote})

\* e is s wrapped in double quotes with every double quote of s doubled
IsQuotedForm(e, s) ==
    /\ Len(e) = Len(s) + QuotesBefore(s, Len(s) + 1) + 2
    /\ e[1] = Quote
    /\ e[Len(e)] = Quote
    /\ \A i \in 1..Len(s) :
           /\ e[1 + i + QuotesBefore(s, i)] = s[i]
           /\ s[i] = Quote => e[2 + i + QuotesBefore(s, i)] = Quote

\* C10: the field emitted for a string s is s wrapped in double quotes with
\* every double quote doubled if and only if s contains a comma, a double quote
\* or a newline; otherwise it is s unchanged.
C10_EscapeRule ==
    csvField # Null =>
        /\ HasTrigger(csvValue) => IsQuotedForm(csvField[1], csvValue)
        /\ ~HasTrigger(csvValue) => csvField[1] = csvValue
        /\ IsQuotedForm(csvField[1], csvValue) <=> HasTrigger(csvValue)

C10_Witness ==
    /\ csvField # Null
    /\ csvValue = <<"a", Quote, Comma>>
    /\ csvField[1] = <<Quote, "a", Quote, Quote, Comma, Quote>>

-----------------------------------------------------------------------------
(* A standard delimited-text parser, used to read the exporter's text back *)

CsvMime == "text/csv;charset=utf-8;"

ExcelMime == "application/vnd.ms-excel"

RECURSIVE ParseFrom(_, _, _, _, _, _)
\* the records of text from position i on, after `records`, the fields `record`
\* of the current record and the characters `field` of the current field:
\* comma ends a field, newline or carriage return (or the pair) outside quotes
\* ends a record, a doubled quote inside a quoted field is one quote, and a
\* final empty line is no record
ParseFrom(text, i, inQuotes, field, record, records) ==
    IF i > Len(text)
    THEN IF record = <<>> /\ field = <<>> THEN records
         ELSE Append(records, Append(record, field))
    ELSE IF inQuotes
    THEN IF text[i] = Quote /\ i < Len(text) /\ text[i + 1] = Quote
         THEN ParseFrom(text, i + 2, TRUE, Append(field, Quote), record, records)
         ELSE IF text[i] = Quote
         THEN ParseFrom(text, i + 1, FALSE, field, record, records)
         ELSE ParseFrom(text, i + 1, TRUE, Append(field, text[i]), record, records)
    ELSE IF text[i] = Quote
    THEN ParseFrom(text, i + 1, TRUE, field, record, records)
    ELSE IF text[i] = Comma
    THEN ParseFrom(text, i + 1, FALSE, <<>>, Append(record, field), records)
    ELSE IF text[i] = "\r" /\ i < Len(text) /\ text[i + 1] = Newline
    THEN ParseFrom(text, i + 2, FALSE, <<>>, <<>>, Append(records, Append(record, field)))
    ELSE IF text[i] \in {Newline, "\r"}
    THEN ParseFrom(text, i + 1, FALSE, <<>>, <<>>, Append(records, Append(record, field)))
    ELSE ParseFrom(text, i + 1, FALSE, Append(field, text[i]), record, records)

ParseCsv(text) == ParseFrom(text, 1, FALSE, <<>>, <<>>, <<>>)

\* the field values of the rows the exporter builds for the exported list
RowValues == [k \in 1..Len(filteredTransactions) |-> CsvRow(filteredTransactions[k], timeZone)]

\* the delimited texts handed to the Sink so far
CsvTexts == {sink[i].content : i \in {j \in 1..Len(sink) : sink[j].mimeType = CsvMime}}

\* the workbooks handed to the Sink so far
ExcelTables == {sink[i].content : i \in {j \in 1..Len(sink) : sink[j].mimeType = ExcelMime}}

\* C11 (as claimed): decoding the text exportToCSV produced with a standard
\* delimited-text parser yields the header row followed by one record per
\* transaction whose seven field values equal the values written, fields with
\* commas, quotes, newlines or carriage returns included.
C11_RoundTripAsClaimed ==
    \A text \in CsvTexts : ParseCsv(text) = <<Headers>> \o RowValues

\* the field values a row has by the description of the seven columns; the
\* category column is given by `category`
ColumnValues(t, category) ==
    << FormatStoredDate(t.date, timeZone),
       <<t.type>>,
       category,
       NumberToString(t.amount),
       IF t.description = Null THEN <<>> ELSE t.description[1],
       IF t.is_recurring THEN <<"Yes">> ELSE <<"No">>,
       IF t.recurring_frequency = Null THEN <<>> ELSE t.recurring_frequency[1] >>

\* the category name, or Uncategorized when the transaction has no category
NameOrUncategorized(t) ==
    IF t.category = Null THEN <<"Uncategorized">> ELSE t.category[1].name

\* the same, with Uncategorized for a category whose name is empty too
NameUnlessEmpty(t) ==
    IF t.category = Null \/ t.category[1].name = <<>>
    THEN <<"Uncategorized">> ELSE t.category[1].name

\* the delimited text of a header record and the given rows of field values
TextOfRows(rows) ==
    Join(<<Join(EscapeRow(Headers), Comma)>>
             \o [k \in 1..Len(rows) |-> Join(EscapeRow(rows[k]), Comma)],
         Newline)

\* the workbook rows of a header row and the given rows of field values
TableOfRows(rows) == <<XmlHeaderRow>> \o [k \in 1..Len(rows) |-> XmlDataRow(rows[k])]

\* C12 (as claimed): every exported row, in both formats, has the seven fields
\* Date, Type, Category, Amount, Description, Recurring, Frequency in this
\* order, Category being the category name, or Uncategorized when the
\* transaction has no category.
C12_ColumnsAsClaimed ==
    LET rows == [k \in 1..Len(filteredTransactions) |->
                    ColumnValues(filteredTransactions[k],
                                 NameOrUncategorized(filteredTransactions[k]))]
    IN  /\ \A text \in CsvTexts : text = TextOfRows(rows)
        /\ \A table \in ExcelTables : table = TableOfRows(rows)

\* C12 (amended): every exported row, in both formats, has exactly seven fields
\* in the order Date, Type, Category, Amount, Description, Recurring,
\* Frequency; Category is the category name, or Uncategorized when the
\* transaction has no category or its category's name is empty; Description
\* is the description or empty when absent; Recurring is Yes when the flag is
\* set and No otherwise; Frequency is the frequency tag or empty when absent.
C12_Columns ==
    LET rows == [k \in 1..Len(filteredTransactions) |->
                    ColumnValues(filteredTransactions[k],
                                 NameUnlessEmpty(filteredTransactions[k]))]
    IN  /\ \A text \in CsvTexts : text = TextOfRows(rows)
        /\ \A table \in ExcelTables :
               /\ table = TableOfRows(rows)
               /\ \A r \in 1..Len(table) : Len(table[r]) = 7
               /\ \A i \in 1..7 : table[1][i].data = Headers[i]

C12_Witness ==
    /\ Len(filteredTransactions) = 2
    /\ filteredTransactions[1].category = Some([name |-> <<>>])
    /\ filteredTransactions[2].category = Null
    /\ filteredTransactions[2].recurring_frequency = Some(<<>>)
    /\ \E table \in ExcelTables :
           /\ table[2][3].data = <<"Uncategorized">>
           /\ table[3][3].data = <<"Uncategorized">>
           /\ table[2][6].data = <<"Yes">>
           /\ table[3][7].data = <<>>

\* the positions of text holding ch outside a quoted field (an even number of
\* double quotes before them)
OuterAt(text, ch) == {p \in 1..Len(text) : text[p] = ch /\ QuotesBefore(text, p) % 2 = 0}

\* the k-th smallest member of a set of positions
NthOf(S, k) == CHOOSE p \in S : Cardinality({q \in S : q < p}) = k - 1

\* the k-th piece of text when it is cut at every ch outside a quoted field
Piece(text, ch, k) ==
    LET cuts == OuterAt(text, ch)
        from == IF k = 1 THEN 1 ELSE NthOf(cuts, k - 1) + 1
        to   == IF k = Cardinality(cuts) + 1 THEN Len(text) ELSE NthOf(cuts, k) - 1
    IN  SubSeq(text, from, to)

\* C13: the delimited text of a non-empty list of n transactions is the header
\* record followed by exactly n data records in the order of the list, the
\* records joined by a single newline with none trailing, and the seven fields
\* of each record joined by commas.
C13_RecordsInOrder ==
    \A text \in CsvTexts :
        LET n == Len(filteredTransactions)
            written == <<Headers>> \o RowValues
        IN  /\ n > 0
            /\ Cardinality(OuterAt(text, Newline)) = n
            /\ text[Len(text)] # Newline
            /\ \A k \in 1..(n + 1) :
                   LET record == Piece(text, Newline, k)
                   IN  /\ Cardinality(OuterAt(record, Comma)) = 6
                       /\ \A f \in 1..7 : Piece(record, Comma, f) = escapeCSV(written[k][f])

C13_Witness ==
    /\ Len(filteredTransactions) = 2
    /\ filteredTransactions[1].description = Some(<<"line1", "\n", "line2">>)
    /\ filteredTransactions[2].description = Some(<<"He said", ",", " ", "\"", "hi", "\"">>)
    /\ \E text \in CsvTexts :
           /\ Cardinality({p \in 1..Len(text) : text[p] = Newline}) = 3
           /\ Piece(Piece(text, Newline, 3), Comma, 3) = <<"Food">>

Amp == <<"&", "a", "m", "p", ";">>

Lt == <<"&", "l", "t", ";">>

\* text has the characters of `entity` from position p on
HasAt(text, p, entity) ==
    /\ p + Len(entity) - 1 <= Len(text)
    /\ SubSeq(text, p, p + Len(entity) - 1) = entity

\* no raw < in text, and every & of it starts &amp; or &lt;
NoRawMarkup(text) ==
    \A p \in 1..Len(text) :
        /\ text[p] # "<"
        /\ text[p] = "&" => HasAt(text, p, Amp) \/ HasAt(text, p, Lt)

RECURSIVE UnescapeXml(_)
\* the text a reader of the markup gets: &amp; read as & and &lt; as <
UnescapeXml(text) ==
    IF text = <<>> THEN <<>>
    ELSE IF HasAt(text, 1, Amp) THEN <<"&">> \o UnescapeXml(SubSeq(text, 6, Len(text)))
    ELSE IF HasAt(text, 1, Lt) THEN <<"<">> \o UnescapeXml(SubSeq(text, 5, Len(text)))
    ELSE <<Head(text)>> \o UnescapeXml(Tail(text))

\* C14: the workbook of a non-empty list of n transactions has one header row
\* of seven header-styled string cells followed by exactly n data rows in the
\* order of the list; in each data row the Amount cell is numeric-typed and
\* carries the raw amount, and every other cell is string-typed and carries
\* the field with every & written &amp; and every < written &lt;, so no string
\* cell holds a raw < or a & that does not start &amp; or &lt;.
C14_WorkbookRows ==
    \A table \in ExcelTables :
        LET n == Len(filteredTransactions)
        IN  /\ n > 0
            /\ Len(table) = n + 1
            /\ Len(table[1]) = 7
            /\ \A i \in 1..7 :
                   table[1][i] = [style |-> "header", type |-> "String", data |-> Headers[i]]
            /\ \A k \in 1..n :
                   /\ Len(table[k + 1]) = 7
                   /\ table[k + 1][4].type = "Number"
                   /\ table[k + 1][4].data = <<ToString(filteredTransactions[k].amount)>>
                   /\ \A i \in (1..7) \ {4} :
                          /\ table[k + 1][i].type = "String"
                          /\ NoRawMarkup(table[k + 1][i].data)
                          /\ UnescapeXml(table[k + 1][i].data) = RowValues[k][i]

C14_Witness ==
    /\ Len(filteredTransactions) = 2
    /\ filteredTransactions[1].description = Some(<<"a", "<", "b", "&", "c">>)
    /\ filteredTransactions[2].amount = 5
    /\ \E table \in ExcelTables :
           /\ table[2][5].data = <<"a">> \o Lt \o <<"b">> \o Amp \o <<"c">>
           /\ table[3][3].data = <<"R">> \o Amp \o <<"D", ",", " ", "Inc">>
           /\ table[3][4].data = <<"5">>

\* C15: in the workbook the Amount cell of a data row has style income exactly
\* when the transaction's type is income and style expense otherwise, which is
\* what comparing the row's Type value with 'income' chooses; no other cell of
\* the workbook carries the income or the expense style.
C15_AmountStyle ==
    \A table \in ExcelTables :
        /\ \A k \in 1..Len(filteredTransactions) :
               /\ table[k + 1][4].style = "income" <=> filteredTransactions[k].type = "income"
               /\ table[k + 1][4].style = "expense" <=> filteredTransactions[k].type # "income"
        /\ \A r \in 1..Len(table) : \A i \in 1..Len(table[r]) :
               table[r][i].style \in {"income", "expense"} => r > 1 /\ i = 4

C15_Witness ==
    /\ Len(filteredTransactions) = 2
    /\ filteredTransactions[1].type = "income"
    /\ filteredTransactions[2].type = "expense"
    /\ \E table \in ExcelTables :
           /\ table[2][4].style = "income"
           /\ table[3][4].style = "expense"
           /\ table[2][2].style = ""

\* the file extension and MIME type of an exporter
ExtensionOf(fn) == IF fn = "exportToCSV" THEN <<".csv">> ELSE <<".xls">>

MimeOf(fn) == IF fn = "exportToCSV" THEN CsvMime ELSE ExcelMime

\* transactions-<the date of that day>.<extension>
DefaultFilename(fn, day) == <<"transactions-", IsoDate[day]>> \o ExtensionOf(fn)

\* the serialized rows of the exported list in an exporter's format
Serialized(fn) ==
    IF fn = "exportToCSV" THEN TextOfRows(RowValues) ELSE TableOfRows(RowValues)

\* C16 (as claimed): each export call on a non-empty list invokes the Sink
\* exactly once, with the serialized text, the exporter's MIME type, and the
\* supplied filename when one is supplied and otherwise
\* transactions-<today's date> with the exporter's extension.
C16_SinkCallAsClaimed ==
    Len(filteredTransactions) > 0 =>
        /\ Len(sink) = Len(invoked)
        /\ \A i \in 1..Len(invoked) :
               /\ sink[i].content = Serialized(invoked[i].fn)
               /\ sink[i].mimeType = MimeOf(invoked[i].fn)
               /\ sink[i].filename =
                      IF invoked[i].filename # Null THEN invoked[i].filename[1]
                      ELSE DefaultFilename(invoked[i].fn, invoked[i].day)

\* C16 (amended): each export call on a non-empty list invokes the Sink exactly
\* once, with the serialized text, the exporter's MIME type, and the supplied
\* filename when a non-empty one is supplied and otherwise (none, or the empty
\* string) transactions-<today's date> with the exporter's extension.
C16_SinkCall ==
    Len(filteredTransactions) > 0 =>
        /\ Len(sink) = Len(invoked)
        /\ \A i \in 1..Len(invoked) :
               /\ sink[i].content = Serialized(invoked[i].fn)
               /\ sink[i].mimeType = MimeOf(invoked[i].fn)
               /\ sink[i].filename =
                      IF invoked[i].filename # Null /\ invoked[i].filename[1] # <<>>
                      THEN invoked[i].filename[1]
                      ELSE DefaultFilename(invoked[i].fn, invoked[i].day)

C16_Witness ==
    /\ Len(filteredTransactions) > 0
    /\ Len(invoked) = 2
    /\ invoked[1] = [fn |-> "exportToExcel", from |-> "caller", filename |-> Some(<<>>),
                     day |-> 3]
    /\ invoked[2] = [fn |-> "exportToCSV", from |-> "caller",
                     filename |-> Some(<<"backup">>), day |-> 4]
    /\ Len(sink) = 2
    /\ sink[1].filename = <<"transactions-", "2024-02-29", ".xls">>
    /\ sink[2].filename = <<"backup">>
    /\ sink[2].mimeType = CsvMime

\* pairs of invocations of the same exporter with the same filename argument
\* (the exported list is the same throughout a behaviour)
SameCalls ==
    {p \in (1..Len(invoked)) \X (1..Len(invoked)) :
        /\ Len(filteredTransactions) > 0
        /\ invoked[p[1]].fn = invoked[p[2]].fn
        /\ invoked[p[1]].filename = invoked[p[2]].filename}

C18_DateAsStoredAsClaimed ==
    \A k \in 1..Len(filteredTransactions) :
        /\ \A text \in CsvTexts :
               Piece(Piece(text, Newline, k + 1), Comma, 1)
                   = <<IsoDate[filteredTransactions[k].date]>>
        /\ \A table \in ExcelTables :
               table[k + 1][1].data = <<IsoDate[filteredTransactions[k].date]>>

-----------------------------------------------------------------------------
(* Properties of the Settings page *)

\* the last hook call was made by this step, succeeded, and deleted a category
DeletedNow ==
    /\ Len(hookCalls') = Len(hookCalls) + 1
    /\ hookCalls'[Len(hookCalls')].hook = "deleteCategory"
    /\ hookCalls'[Len(hookCalls')].ok

DefaultIds == {SeededCategories[i].id : i \in 1..Len(SeededCategories)}

\* C20: on the Settings page, after any sequence of open-edit, open-add,
\* submit, request-delete, confirm-delete and cancel actions, deleteCategory
\* has never been invoked with the id of a default category: the categories
\* with the default flag are the seeded ones, they are all still there, and
\* no deleteCategory call named one of them.
C20_DefaultsNeverDeleted ==
    /\ \A i \in 1..Len(categories) : categories[i].is_default <=> categories[i].id \in DefaultIds
    /\ \A d \in DefaultIds : \E i \in 1..Len(categories) : categories[i].id = d
    /\ \A i \in 1..Len(hookCalls) :
           hookCalls[i].hook = "deleteCategory" => hookCalls[i].id \notin DefaultIds
    /\ deletingCategory # Null => ~deletingCategory[1].is_default

C20_Witness ==
    /\ Len(hookCalls) = 2
    /\ hookCalls[1] = [hook |-> "updateCategory", id |-> 2, ok |-> TRUE]
    /\ hookCalls[2] = [hook |-> "deleteCategory", id |-> 3, ok |-> TRUE]
    /\ Len(categories) = 2
    /\ categories[2].name = "Gifts"
    /\ categories[2].is_default

-----------------------------------------------------------------------------
(* The data store: the eight tables under their row-level-security policies *)
(* and their foreign keys to categories, and the requests users send it     *)

\* requests a behaviour may make
MaxRequests == 2

Users == {"u1", "u2"}

Tables ==
    {"profiles", "categories", "transactions", "budgets", "alerts", "loans",
     "monthly_income", "savings_goals"}

\* the commands a table has a policy for; each policy's expression is
\* auth.uid() = user_id, and profiles has no DELETE policy
PolicyCommands(table) ==
    IF table = "profiles" THEN {"SELECT", "INSERT", "UPDATE"}
    ELSE {"SELECT", "INSERT", "UPDATE", "DELETE"}

\* the table's policy for the command passes a row owned by `owner` for the
\* requester auth.uid() = uid (with row security enabled, no policy is a denial)
Permits(command, table, uid, owner) ==
    command \in PolicyCommands(table) /\ uid = owner

\* the tables with a category_id column, and what its foreign key does when the
\* category is deleted
OnCategoryDelete(table) ==
    CASE table = "transactions" -> "SET NULL"
      [] table = "budgets" -> "CASCADE"
      [] OTHER -> "none"

StoreRow(id, table, owner, categoryId) ==
    [id |-> id, table |-> table, user_id |-> owner, category_id |-> categoryId]

\* the rows at the start: a category of each user, a transaction of u2 on its
\* own category and a profile of u1
StoredRows ==
    { StoreRow(1, "categories", "u1", Null), StoreRow(2, "categories", "u2", Null),
      StoreRow(3, "transactions", "u2", Some(2)), StoreRow(4, "profiles", "u1", Null) }

\* gen_random_uuid(): an id no row has
NewRowId == 1 + Cardinality(StoredRows) + requestCount

\* the foreign key is satisfied: the check reads categories whatever its policies
ReferenceHolds(table, categoryId) ==
    \/ categoryId = Null
    \/ /\ OnCategoryDelete(table) # "none"
       /\ \E c \in store : c.table = "categories" /\ c.id = categoryId[1]

Effect(uid, op, row, newOwner) ==
    [actor |-> uid, op |-> op, table |-> row.table, owner |-> row.user_id,
     newOwner |-> newOwner]

\* SELECT * FROM table, as user uid
RequestSelect(uid, table) ==
    /\ requestCount < MaxRequests
    /\ requestCount' = requestCount + 1
    /\ effects' = { Effect(uid, "read", r, r.user_id) :
                      r \in {x \in store : x.table = table
                                /\ Permits("SELECT", table, uid, x.user_id)} }
    /\ UNCHANGED <<store, notStoreVars>>

\* INSERT INTO table (user_id, category_id), as user uid
RequestInsert(uid, table, owner, categoryId) ==
    /\ requestCount < MaxRequests
    /\ requestCount' = requestCount + 1
    /\ LET row == StoreRow(NewRowId, table, owner, categoryId)
       IN  IF Permits("INSERT", table, uid, owner) /\ ReferenceHolds(table, categoryId)
           THEN /\ store' = store \cup {row}
                /\ effects' = {Effect(uid, "create", row, owner)}
           ELSE /\ store' = store
                /\ effects' = {}
    /\ UNCHANGED notStoreVars

\* UPDATE table SET user_id, category_id WHERE id = ..., as user uid: the
\* UPDATE policy's USING expression picks the row and, there being no WITH
\* CHECK, also checks the new row
RequestUpdate(uid, row, owner, categoryId) ==
    /\ requestCount < MaxRequests
    /\ requestCount' = requestCount + 1
    /\ row \in store
    /\ IF /\ Permits("UPDATE", row.table, uid, row.user_id)
          /\ Permits("UPDATE", row.table, uid, owner)
          /\ ReferenceHolds(row.table, categoryId)
       THEN /\ store' = (store \ {row})
                            \cup {StoreRow(row.id, row.table, owner, categoryId)}
            /\ effects' = {Effect(uid, "modify", row, owner)}
       ELSE /\ store' = store
            /\ effects' = {}
    /\ UNCHANGED notStoreVars

\* the rows that refer to category row `category` through a foreign key
Referring(category, action) ==
    {r \in store : /\ category.table = "categories"
                   /\ OnCategoryDelete(r.table) = action
                   /\ r.category_id = Some(category.id)}

\* DELETE FROM table WHERE id = ..., as user uid, with the foreign keys'
\* actions on the rows that referred to a deleted category
RequestDelete(uid, row) ==
    /\ requestCount < MaxRequests
    /\ requestCount' = requestCount + 1
    /\ row \in store
    /\ IF Permits("DELETE", row.table, uid, row.user_id)
       THEN /\ store' = (store \ ({row} \cup Referring(row, "CASCADE")
                                        \cup Referring(row, "SET NULL")))
                            \cup {[r EXCEPT !.category_id = Null] :
                                     r \in Referring(row, "SET NULL")}
            /\ effects' = {Effect(uid, "delete", row, row.user_id)}
                              \cup {Effect(uid, "delete", r, r.user_id) :
                                       r \in Referring(row, "CASCADE")}
                              \cup {Effect(uid, "modify", r, r.user_id) :
                                       r \in Referring(row, "SET NULL")}
       ELSE /\ store' = store
            /\ effects' = {}
    /\ UNCHANGED notStoreVars

\* the category ids a request may name
CategoryRefs == {Null} \cup {Some(r.id) : r \in {x \in store : x.table = "categories"}}

InitStore ==
    /\ store = StoredRows
    /\ effects = {}
    /\ requestCount = 0
    /\ NotStoreIdle

NextStore ==
    \/ \E uid \in Users, table \in Tables : RequestSelect(uid, table)
    \/ \E uid \in Users, table \in Tables, owner \in Users, c \in CategoryRefs :
           RequestInsert(uid, table, owner, c)
    \/ \E uid \in Users, row \in store, owner \in Users, c \in CategoryRefs :
           RequestUpdate(uid, row, owner, c)
    \/ \E uid \in Users, row \in store : RequestDelete(uid, row)

SpecStore == InitStore /\ [][NextStore]_vars

\* C21 (as claimed): after any sequence of select, insert, update and delete
\* requests by authenticated users, no request has read, created, modified or
\* deleted a row whose user_id differs from the requester's id, and no update
\* has changed a row's owner.
C21_OwnRowsOnlyAsClaimed ==
    \A e \in effects : e.owner = e.actor /\ e.newOwner = e.owner


-----------------------------------------------------------------------------
(* The breakdowns and the records they are computed from.  The fetched list   *)
(* is parsed JSON: every transaction row carries its own joined category      *)
(* object, here the record at the row's position in `joined`, and a           *)
(* transaction's `category` field is a reference to it.                       *)

\* names a caller of the page may write into a returned breakdown item
WrittenNames == {"Food", "Gifts"}

\* the rows of a fetched list of n transactions: row i refers to joined[i]
ListedRow(i, ty, a, withCategory, records) ==
    [type |-> ty, amount |-> a,
     category_id |-> IF withCategory THEN Some(records[i].id) ELSE Null,
     category |-> IF withCategory THEN Some(i) ELSE Null]

ListedOver(records) ==
    UNION { { l \in [1..n -> [type : TransactionTypes, amount : {1, 2},
                              category_id : {Null, Some("c1"), Some("c2")},
                              category : {Null} \cup {Some(i) : i \in 1..n}]] :
                \A i \in 1..n : \E w \in BOOLEAN :
                    l[i] = ListedRow(i, l[i].type, l[i].amount, w, records) } :
            n \in 0..MaxLen }

\* the list with every reference replaced by the record it points to
Dereferenced(txs, records) ==
    [i \in 1..Len(txs) |->
        [txs[i] EXCEPT !.category = IF @ = Null THEN Null ELSE Some(records[@[1]])]]

\* Dashboard: `category: item.category` keeps the reference of the first
\* transaction of each category
AggregateDashboard ==
    /\ returned' = [page |-> "dashboard", items |-> DashboardCategorySpending(listed)]
    /\ UNCHANGED <<listed, joined, joinedAsFetched, notAliasVars>>

\* Reports: `name: t.category?.name || 'Other'` copies the strings
AggregateReports ==
    /\ returned' = [page |-> "reports",
                    items |-> ReportsStats(Dereferenced(listed, joined)).categoryBreakdown]
    /\ UNCHANGED <<listed, joined, joinedAsFetched, notAliasVars>>

\* a caller writes the category name of item k of the returned breakdown:
\* item.category.name = name on the Dashboard, item.name = name in Reports
MutateReturned(k, name) ==
    /\ k \in 1..Len(returned.items)
    /\ IF returned.page = "dashboard"
       THEN /\ joined' = [joined EXCEPT ![returned.items[k].category].name = name]
            /\ UNCHANGED returned
       ELSE /\ returned' = [returned EXCEPT !.items[k].name = name]
            /\ UNCHANGED joined
    /\ UNCHANGED <<listed, joinedAsFetched, notAliasVars>>

InitAlias ==
    /\ joined \in [1..MaxLen -> {Food, Rent}]
    /\ joinedAsFetched = joined
    /\ listed \in ListedOver(joined)
    /\ returned = [page |-> "none", items |-> <<>>]
    /\ NotAliasIdle

NextAlias ==
    \/ AggregateDashboard
    \/ AggregateReports
    \/ \E k \in 1..MaxLen, name \in WrittenNames : MutateReturned(k, name)

SpecAlias == InitAlias /\ [][NextAlias]_vars

\* what a breakdown whose items refer to joined records displays
Shown(items, records) ==
    [i \in 1..Len(items) |-> [items[i] EXCEPT !.category = records[@]]]

\* C22 (as claimed): computing the summary and the breakdown leaves the input
\* list and every joined category record unchanged, and writing into the
\* returned breakdown cannot alter a later aggregation of the same input: the
\* joined records stay as they were fetched and the Dashboard breakdown of the
\* list is the one the fetched records give.
C22_NoAliasingAsClaimed ==
    /\ joined = joinedAsFetched
    /\ Shown(DashboardCategorySpending(listed), joined)
         = Shown(DashboardCategorySpending(listed), joinedAsFetched)

-----------------------------------------------------------------------------
(* Reports: the previous-period deltas and the monthly trend *)

\* most rows the two queries of the page return together
MaxReportRows == 3

SelectedYear == "2024"

PreviousYear == "2023"

\* format(new Date(selectedYear, i, 1), 'yyyy-MM') for i = 0..11, in pieces
MonthStart(i) ==
    <<SelectedYear, "-",
      <<"01", "02", "03", "04", "05", "06", "07", "08", "09", "10", "11", "12">>[i + 1]>>

\* format(new Date(selectedYear, i), 'MMM')
MonthLabel(i) ==
    <<"Jan", "Feb", "Mar", "Apr", "May", "Jun",
      "Jul", "Aug", "Sep", "Oct", "Nov", "Dec">>[i + 1]

\* String.prototype.startsWith on a date held in pieces
StartsWith(text, prefix) ==
    Len(prefix) <= Len(text) /\ SubSeq(text, 1, Len(prefix)) = prefix

\* rows the store returns for a date range
ReportRows(dates) ==
    { [type |-> k[1], amount |-> a, category_id |-> k[2], category |-> k[3], date |-> d] :
        k \in { <<"income", Null, Null>>, <<"expense", Some("c1"), Some(Food)>>,
                <<"expense", Some("c2"), Some(Rent)>> },
        a \in {-1, 2}, d \in dates }

\* .gte('date', start).lte('date', end) of reportsQuery: the selected month
\* (February here) or the selected year
ReportsRange(p) ==
    IF p = "monthly"
    THEN { <<SelectedYear, "-", "02", "-", "29">> }
    ELSE { <<SelectedYear, "-", "01", "-", "31">>, <<SelectedYear, "-", "12", "-", "31">> }

\* the range of comparisonQuery: the month or the year before
ComparisonRange(p) ==
    IF p = "monthly"
    THEN { <<SelectedYear, "-", "01", "-", "31">> }
    ELSE { <<PreviousYear, "-", "12", "-", "31">> }

\* mutant: the delta without its guard
ReportsChangeUnguarded(current, previous) ==
    JsTimes100(JsDiv(current - previous, previous))

\* previous > 0 ? ((current - previous) / previous) * 100 : 0
ReportsChange(current, previous) ==
    IF previous > 0 THEN JsTimes100(JsDiv(current - previous, previous)) ELSE Num(0)

\* mutant: the loop stops one month early
MonthlyTrendElevenMonths(txs, p) ==
    IF p = "yearly"
    THEN [j \in 1..11 |->
            LET monthTxns == SelectSeq(txs, LAMBDA t : StartsWith(t.date, MonthStart(j - 1)))
            IN  [month |-> MonthLabel(j - 1),
                 income |-> SumOfType(monthTxns, "income"),
                 expenses |-> SumOfType(monthTxns, "expense")]]
    ELSE <<>>

\* for (let i = 0; i < 12; i++) monthlyTrend.push(...) when period is yearly
MonthlyTrend(txs, p) ==
    IF p = "yearly"
    THEN [j \in 1..12 |->
            LET monthTxns == SelectSeq(txs, LAMBDA t : StartsWith(t.date, MonthStart(j - 1)))
            IN  [month |-> MonthLabel(j - 1),
                 income |-> SumOfType(monthTxns, "income"),
                 expenses |-> SumOfType(monthTxns, "expense")]]
    ELSE <<>>

\* data || []
OrEmpty(data) == IF data = Null THEN <<>> ELSE data[1]

\* Reports `stats` memo with the previous-period fields and the trend
ReportsStatsCompared(data, prevData, p) ==
    LET txs == OrEmpty(data)
        prevTransactions == OrEmpty(prevData)
        income == SumOfType(txs, "income")
        expenses == SumOfType(txs, "expense")
        prevIncome == SumOfType(prevTransactions, "income")
        prevExpenses == SumOfType(prevTransactions, "expense")
    IN  [income |-> income,
         expenses |-> expenses,
         savings |-> income - expenses,
         prevIncome |-> prevIncome,
         prevExpenses |-> prevExpenses,
         incomeChange |-> ReportsChange(income, prevIncome),
         expenseChange |-> ReportsChange(expenses, prevExpenses),
         categoryBreakdown |-> ReportsStats(txs).categoryBreakdown,
         monthlyTrend |-> MonthlyTrend(txs, p),
         transactionCount |-> Len(txs)]

RECURSIVE ComparisonMap(_, _, _)
\* the two forEach loops filling the comparison `categoryMap`: `field` is
\* "current" for the period's rows and "previous" for the rows before it
ComparisonMap(txs, map, field) ==
    IF txs = <<>> THEN map
    ELSE LET t == Head(txs)
             key == t.category_id[1]
             i == IndexOfKey(map, key)
             fresh == [key |-> key, name |-> OrElse(t.category[1].name, "Other"),
                       current |-> 0, previous |-> 0,
                       color |-> OrElse(t.category[1].color, "#6b7280")]
         IN  ComparisonMap(Tail(txs),
                 IF i > 0
                 THEN [map EXCEPT ![i][field] = @ + t.amount]
                 ELSE Append(map, [fresh EXCEPT ![field] = t.amount]),
                 field)

\* the `budgetComparisonData` memo
BudgetComparisonData(data, prevData) ==
    IF data = Null \/ prevData = Null THEN <<>>
    ELSE LET current == ComparisonMap(FilterExpenseWithCategory(data[1]), <<>>, "current")
             both == ComparisonMap(FilterExpenseWithCategory(prevData[1]), current, "previous")
             mapped == [i \in 1..Len(both) |->
                          [name |-> both[i].name, current |-> both[i].current,
                           previous |-> both[i].previous, color |-> both[i].color,
                           change |-> ReportsChange(both[i].current, both[i].previous)]]
         IN  SliceFromStart(SortDescending(mapped, "current"), 8)

\* the page renders again with the state it is given
RenderReportsWith(p, data, prevData) ==
    /\ period' = p
    /\ reportsData' = data
    /\ comparisonData' = prevData
    /\ reportsStats' = ReportsStatsCompared(data, prevData, p)
    /\ budgetComparisonData' = BudgetComparisonData(data, prevData)
    /\ UNCHANGED notReportsVars

\* setPeriod: both query keys change and their data is loaded anew
SetPeriod(p) ==
    /\ p # period
    /\ RenderReportsWith(p, Null, Null)

\* reportsQuery settles with the rows of its range
ReportsQuerySettles(rows) ==
    /\ reportsData = Null
    /\ Len(rows) + Len(OrEmpty(comparisonData)) <= MaxReportRows
    /\ RenderReportsWith(period, Some(rows), comparisonData)

\* comparisonQuery settles with the rows of the period before
ComparisonQuerySettles(rows) ==
    /\ comparisonData = Null
    /\ Len(rows) + Len(OrEmpty(reportsData)) <= MaxReportRows
    /\ RenderReportsWith(period, reportsData, Some(rows))

\* the results a query that is still loading may settle with, within the bound
Loadable(data, dates, other) ==
    IF data # Null THEN {}
    ELSE SeqsUpTo(ReportRows(dates), MaxReportRows - Len(OrEmpty(other)))

InitReports ==
    /\ period = "monthly"
    /\ reportsData = Null
    /\ comparisonData = Null
    /\ reportsStats = ReportsStatsCompared(Null, Null, "monthly")
    /\ budgetComparisonData = BudgetComparisonData(Null, Null)
    /\ NotReportsIdle

NextReports ==
    \/ \E p \in {"monthly", "yearly"} : SetPeriod(p)
    \/ \E rows \in Loadable(reportsData, ReportsRange(period), comparisonData) :
           ReportsQuerySettles(rows)
    \/ \E rows \in Loadable(comparisonData, ComparisonRange(period), reportsData) :
           ComparisonQuerySettles(rows)

SpecReports == InitReports /\ [][NextReports]_vars

\* a delta of `current` against `previous` as the claim states it
DeltaAsStated(change, current, previous) ==
    /\ change.kind = "finite"
    /\ previous > 0 => change.num * previous = 100 * (current - previous) * change.den
    /\ previous = 0 => change = Num(0)

\* C23: incomeChange, expenseChange and every comparison row's change equal
\* 100 * (current - previous) / previous when the previous value is greater
\* than 0 and 0 when it is 0, and none is the outcome of a division by zero.
C23_Deltas ==
    /\ DeltaAsStated(reportsStats.incomeChange, reportsStats.income, reportsStats.prevIncome)
    /\ DeltaAsStated(reportsStats.expenseChange, reportsStats.expenses,
                     reportsStats.prevExpenses)
    /\ \A i \in 1..Len(budgetComparisonData) :
          DeltaAsStated(budgetComparisonData[i].change, budgetComparisonData[i].current,
                        budgetComparisonData[i].previous)

\* a previous income of 0 beside a positive previous expense total, and a
\* comparison row of a category with no previous spending
C23_Witness ==
    /\ comparisonData # Null
    /\ reportsStats.prevIncome = 0
    /\ reportsStats.income > 0
    /\ reportsStats.prevExpenses > 0
    /\ reportsStats.expenseChange # Num(0)
    /\ \E i \in 1..Len(budgetComparisonData) :
          budgetComparisonData[i].previous = 0 /\ budgetComparisonData[i].current > 0

\* the months of a year in calendar order, as the trend labels them
CalendarOrder ==
    <<"Jan", "Feb", "Mar", "Apr", "May", "Jun", "Jul", "Aug", "Sep", "Oct", "Nov", "Dec">>

\* the calendar month, 1 to 12, of a stored yyyy-MM-dd date
MonthNumber(date) ==
    CHOOSE j \in 1..12 :
        date[3] = <<"01", "02", "03", "04", "05", "06", "07", "08", "09", "10", "11", "12">>[j]

RECURSIVE SumOver(_, _)
\* the sum of one numeric field over the entries of a list
SumOver(entries, field) ==
    IF entries = <<>> THEN 0 ELSE Head(entries)[field] + SumOver(Tail(entries), field)

\* the total of the fetched transactions of one type dated in month j
TotalOfMonth(txs, ty, j) ==
    ReduceSum(SelectSeq(txs, LAMBDA t : t.type = ty /\ MonthNumber(t.date) = j), 0)

\* C26: in the yearly report monthlyTrend has 12 entries, January to December,
\* every fetched transaction is counted in the entry of its month and in no
\* other, and the entries' income and expenses add up to the report's totals;
\* in the monthly report monthlyTrend is empty.
C26_MonthlyTrend ==
    LET txs == OrEmpty(reportsData)
        trend == reportsStats.monthlyTrend
    IN  IF period = "yearly"
        THEN /\ Len(trend) = 12
             /\ [j \in 1..12 |-> trend[j].month] = CalendarOrder
             /\ \A j \in 1..12 :
                   /\ trend[j].income = TotalOfMonth(txs, "income", j)
                   /\ trend[j].expenses = TotalOfMonth(txs, "expense", j)
             /\ SumOver(trend, "income") = reportsStats.income
             /\ SumOver(trend, "expenses") = reportsStats.expenses
        ELSE trend = <<>>

\* a yearly report with income in January and in December and an expense
C26_Witness ==
    /\ period = "yearly"
    /\ reportsData # Null
    /\ reportsStats.monthlyTrend[1].income > 0
    /\ reportsStats.monthlyTrend[12].income > 0
    /\ reportsStats.monthlyTrend[12].expenses > 0
    /\ reportsStats.income = 4

-----------------------------------------------------------------------------
(* Budgets and MonthlyTracker: setting the monthly budget and the income *)

\* mutation calls in one run
MaxAmountCalls == 2

\* texts an input may hold
InputTexts == {"", "abc", "-5", "0", "12"}

\* Number(text): blank text is 0, text that is no numeric literal is NaN
NumberOfText(text) ==
    CASE text = "" -> Num(0)
      [] text = "abc" -> NaN
      [] text = "-5" -> Num(-5)
      [] text = "0" -> Num(0)
      [] text = "12" -> Num(12)

\* String(monthlyIncome || ''): 0 gives the empty text
TextOfAmount(n) == IF n = 0 THEN "" ELSE IF n = 12 THEN "12" ELSE "-5"

\* isNaN(amount) || amount < 0
IsRejected(amount) == amount.kind = "NaN" \/ amount.num < 0

\* onChange of the budget input
SetNewBudget(text) ==
    /\ budgetDialogOpen
    /\ newBudget' = text
    /\ UNCHANGED <<budgetDialogOpen, incomeValue, editingIncome, profileBudget,
                   incomeAmount, amountCalls, amountToast, notAmountsVars>>

\* onOpenChange of the budget dialog
SetBudgetDialogOpen(open) ==
    /\ budgetDialogOpen' = open
    /\ UNCHANGED <<newBudget, incomeValue, editingIncome, profileBudget,
                   incomeAmount, amountCalls, amountToast, notAmountsVars>>

\* handleSetBudget; `ok` is the outcome of updateProfile.mutateAsync
HandleSetBudget(ok) ==
    LET amount == NumberOfText(newBudget)
    IN  /\ budgetDialogOpen
        /\ IF IsRejected(amount)
           THEN /\ amountToast' = Some("Please enter a valid amount")
                /\ UNCHANGED <<newBudget, budgetDialogOpen, profileBudget, amountCalls>>
           ELSE /\ Len(amountCalls) < MaxAmountCalls
                /\ amountCalls' = Append(amountCalls,
                       [hook |-> "updateProfile", text |-> newBudget, amount |-> amount])
                /\ IF ok
                   THEN /\ profileBudget' = amount.num
                        /\ amountToast' = Some("Budget updated")
                        /\ budgetDialogOpen' = FALSE
                        /\ newBudget' = ""
                   ELSE /\ amountToast' = Some("Failed to update budget")
                        /\ UNCHANGED <<newBudget, budgetDialogOpen, profileBudget>>
        /\ UNCHANGED <<incomeValue, editingIncome, incomeAmount, notAmountsVars>>

\* the pencil button beside the income
StartEditingIncome ==
    /\ incomeValue' = TextOfAmount(incomeAmount)
    /\ editingIncome' = TRUE
    /\ UNCHANGED <<newBudget, budgetDialogOpen, profileBudget, incomeAmount,
                   amountCalls, amountToast, notAmountsVars>>

\* onChange of the income input
SetIncomeValue(text) ==
    /\ editingIncome
    /\ incomeValue' = text
    /\ UNCHANGED <<newBudget, budgetDialogOpen, editingIncome, profileBudget,
                   incomeAmount, amountCalls, amountToast, notAmountsVars>>

\* the Cancel button of the income editor
CancelEditingIncome ==
    /\ editingIncome
    /\ editingIncome' = FALSE
    /\ UNCHANGED <<newBudget, budgetDialogOpen, incomeValue, profileBudget,
                   incomeAmount, amountCalls, amountToast, notAmountsVars>>

\* handleSaveIncome; `ok` is the outcome of setIncome.mutateAsync
HandleSaveIncome(ok) ==
    LET amount == NumberOfText(incomeValue)
    IN  /\ editingIncome
        /\ IF IsRejected(amount)
           THEN /\ amountToast' = Some("Please enter a valid amount")
                /\ UNCHANGED <<editingIncome, incomeAmount, amountCalls>>
           ELSE /\ Len(amountCalls) < MaxAmountCalls
                /\ amountCalls' = Append(amountCalls,
                       [hook |-> "setIncome", text |-> incomeValue, amount |-> amount])
                /\ IF ok
                   THEN /\ incomeAmount' = amount.num
                        /\ amountToast' = Some("Income updated")
                        /\ editingIncome' = FALSE
                   ELSE /\ amountToast' = Some("Failed to update income")
                        /\ UNCHANGED <<editingIncome, incomeAmount>>
        /\ UNCHANGED <<newBudget, budgetDialogOpen, incomeValue, profileBudget,
                       notAmountsVars>>

InitAmounts ==
    /\ newBudget = ""
    /\ budgetDialogOpen = FALSE
    /\ incomeValue = ""
    /\ editingIncome = FALSE
    /\ profileBudget \in {0, 12}
    /\ incomeAmount \in {0, 12}
    /\ amountCalls = <<>>
    /\ amountToast = Null
    /\ NotAmountsIdle

NextAmounts ==
    \/ \E text \in InputTexts : SetNewBudget(text)
    \/ \E open \in BOOLEAN : SetBudgetDialogOpen(open)
    \/ \E ok \in BOOLEAN : HandleSetBudget(ok)
    \/ StartEditingIncome
    \/ \E text \in InputTexts : SetIncomeValue(text)
    \/ CancelEditingIncome
    \/ \E ok \in BOOLEAN : HandleSaveIncome(ok)

SpecAmounts == InitAmounts /\ [][NextAmounts]_vars

\* texts that are not the literal of a number
NonNumericTexts == {"", "abc"}

\* C24 (as claimed): the value sent to the store is never negative or NaN, and
\* an input that is negative or non-numeric is rejected: no update is issued
\* for it.
C24_ValidAmountsAsClaimed ==
    \A i \in 1..Len(amountCalls) :
        /\ amountCalls[i].amount.kind = "finite"
        /\ amountCalls[i].amount.num >= 0
        /\ amountCalls[i].text \notin NonNumericTexts
        /\ amountCalls[i].text # "-5"

-----------------------------------------------------------------------------
(* Dashboard, Budgets and MonthlyTracker: navigateMonth *)

\* navigateMonth calls in one run
MaxNavigations == 3

IsLeapYear(y) == (y % 4 = 0 /\ y % 100 # 0) \/ y % 400 = 0

\* days of month m (0 = January) of year y
DaysInMonth(y, m) ==
    IF m = 1 THEN (IF IsLeapYear(y) THEN 29 ELSE 28)
    ELSE IF m \in {3, 5, 8, 10} THEN 30 ELSE 31

\* a Date, by its local year, month (0 = January) and day of month
DateOf(y, m, d) == [year |-> y, month |-> m, day |-> d]

\* Date.prototype.setMonth(m): the month may lie outside 0..11 and carries
\* into the year; a day of month past the end of the target month carries
\* into the month after it
SetMonth(date, m) ==
    LET y == date.year + (m \div 12)
        mm == m % 12
        over == date.day - DaysInMonth(y, mm)
    IN  IF over <= 0 THEN DateOf(y, mm, date.day)
        ELSE DateOf(y + ((mm + 1) \div 12), (mm + 1) % 12, over)

\* navigateMonth(direction)
NavigateMonth(direction) ==
    /\ navigations < MaxNavigations
    /\ navigations' = navigations + 1
    /\ currentMonth' = Some(SetMonth(currentMonth[1],
                            currentMonth[1].month + (IF direction = "prev" THEN -1 ELSE 1)))
    /\ lastNavigation' = Some([from |-> currentMonth[1], direction |-> direction])
    /\ UNCHANGED <<monthPage, notMonthVars>>

\* useState(new Date()): today, any day of the year
InitMonth ==
    /\ monthPage \in {"Dashboard", "Budgets", "MonthlyTracker"}
    /\ \E m \in 0..11 : \E d \in {1, 28, 29, 30, 31} :
          /\ d <= DaysInMonth(2024, m)
          /\ currentMonth = Some(DateOf(2024, m, d))
    /\ lastNavigation = Null
    /\ navigations = 0
    /\ NotMonthIdle

NextMonth == \E direction \in {"prev", "next"} : NavigateMonth(direction)

SpecMonth == InitMonth /\ [][NextMonth]_vars

\* the number of a date's calendar month, counted across years
MonthIndex(date) == 12 * date.year + date.month

\* C25 (as claimed): navigateMonth('next') yields a date in the immediately
\* following calendar month and navigateMonth('prev') a date in the immediately
\* preceding one, whatever the day of month of the displayed date.
C25_AdjacentMonthAsClaimed ==
    lastNavigation # Null =>
        MonthIndex(currentMonth[1]) =
            MonthIndex(lastNavigation[1].from)
              + (IF lastNavigation[1].direction = "prev" THEN -1 ELSE 1)

-----------------------------------------------------------------------------
(* Settings: the four category lists, and the dialog's submit *)

\* the lists of the card: Fixed Expenses, Variable Expenses, Transfers, Income
RenderedLists ==
    <<fixedCategories, variableCategories, transferCategories, incomeCategories>>

\* the lists a category is drawn in
ListsShowing(category) ==
    { k \in 1..4 : \E j \in 1..Len(RenderedLists[k]) : RenderedLists[k][j] = category }

\* C27 (as claimed): every category, the seeded ones included, appears in
\* exactly one of the four rendered lists.
C27_ListsPartitionAsClaimed ==
    \A i \in 1..Len(categories) : Cardinality(ListsShowing(categories[i])) = 1

\* a step that is a submit of the category form: it calls one of the two hooks
SubmitStep ==
    /\ Len(hookCalls') = Len(hookCalls) + 1
    /\ hookCalls'[Len(hookCalls')].hook \in {"updateCategory", "addCategory"}

\* a step that opens the dialog for editing category c
OpenedForEdit(c) == categoryDialogOpen' /\ editingCategory' = Some(c) /\ ~SubmitStep

\* a step that opens the dialog for adding
OpenedForAdd == categoryDialogOpen' /\ editingCategory' = Null /\ ~SubmitStep

\* C29: the dialog is opened for editing c by openEditCategory(c) and for
\* adding by openAddCategory, and by nothing else; what it was opened for stays
\* until the next opening or successful submit, dismissals included; a submit
\* happens in the open dialog and calls updateCategory with the id of c when
\* the dialog was opened for editing c and addCategory when it was opened for
\* adding; a successful submit closes the dialog and clears editingCategory, a
\* failed one leaves both as they were.
C29_SubmitFollowsOpening ==
    [][ /\ \A i \in 1..Len(categories) :
              OpenEditCategory(categories[i]) => OpenedForEdit(categories[i])
        /\ OpenAddCategory => OpenedForAdd
        /\ (~categoryDialogOpen /\ categoryDialogOpen') =>
              \/ OpenAddCategory
              \/ \E i \in 1..Len(categories) : OpenEditCategory(categories[i])
        /\ (editingCategory' # editingCategory) =>
              \/ OpenedForAdd
              \/ \E i \in 1..Len(categories) : OpenedForEdit(categories[i])
              \/ SubmitStep /\ hookCalls'[Len(hookCalls')].ok
        /\ SubmitStep =>
              LET call == hookCalls'[Len(hookCalls')]
              IN  /\ categoryDialogOpen
                  /\ IF editingCategory # Null
                     THEN call.hook = "updateCategory" /\ call.id = editingCategory[1].id
                     ELSE call.hook = "addCategory"
                  /\ IF call.ok
                     THEN ~categoryDialogOpen' /\ editingCategory' = Null
                     ELSE categoryDialogOpen' /\ editingCategory' = editingCategory
      ]_vars

\* an edit of category 3 whose update failed and was dismissed, then an add
\* that succeeded
C29_Witness ==
    /\ Len(hookCalls) = 2
    /\ hookCalls[1].hook = "updateCategory" /\ hookCalls[1].id = 3 /\ ~hookCalls[1].ok
    /\ hookCalls[2].hook = "addCategory" /\ hookCalls[2].ok
    /\ ~categoryDialogOpen
    /\ editingCategory = Null

-----------------------------------------------------------------------------
(* Loans: recording a payment *)

\* makePayment calls in one run
MaxPayments == 2

\* the loans and cards of the page
LoanRows ==
    { [id |-> 1, loan_type |-> "loan", monthly_emi |-> 12],
      [id |-> 2, loan_type |-> "credit_card", monthly_emi |-> 0] }

\* mutant: a payment of 0 let through
PaymentRejectedBelowZero(amount) == amount.kind = "NaN" \/ amount.num < 0

\* isNaN(amount) || amount <= 0
PaymentRejected(amount) == amount.kind = "NaN" \/ amount.num <= 0

\* onPayment of a LoanCard
OnPayment(loan) ==
    /\ paymentLoan' = Some(loan)
    /\ paymentAmount' = ToString(loan.monthly_emi)
    /\ UNCHANGED <<paymentCalls, loanToast, notLoansVars>>

\* onChange of the payment input
SetPaymentAmount(text) ==
    /\ paymentLoan # Null
    /\ paymentAmount' = text
    /\ UNCHANGED <<paymentLoan, paymentCalls, loanToast, notLoansVars>>

\* the payment dialog dismissed: onOpenChange(false)
DismissPayment ==
    /\ paymentLoan # Null
    /\ paymentLoan' = Null
    /\ UNCHANGED <<paymentAmount, paymentCalls, loanToast, notLoansVars>>

\* handlePayment; `ok` is the outcome of makePayment.mutateAsync
HandlePayment(ok) ==
    LET amount == NumberOfText(paymentAmount)
    IN  /\ IF paymentLoan = Null
           THEN UNCHANGED <<paymentLoan, paymentAmount, paymentCalls, loanToast>>
           ELSE IF PaymentRejected(amount)
           THEN /\ loanToast' = Some("Please enter a valid amount")
                /\ UNCHANGED <<paymentLoan, paymentAmount, paymentCalls>>
           ELSE /\ Len(paymentCalls) < MaxPayments
                /\ paymentCalls' = Append(paymentCalls,
                       [id |-> paymentLoan[1].id, amount |-> amount, ok |-> ok])
                /\ IF ok
                   THEN /\ loanToast' = Some("Payment recorded")
                        /\ paymentLoan' = Null
                        /\ paymentAmount' = ""
                   ELSE /\ loanToast' = Some("Failed to record payment")
                        /\ UNCHANGED <<paymentLoan, paymentAmount>>
        /\ UNCHANGED notLoansVars

InitLoans ==
    /\ paymentLoan = Null
    /\ paymentAmount = ""
    /\ paymentCalls = <<>>
    /\ loanToast = Null
    /\ NotLoansIdle

NextLoans ==
    \/ \E loan \in LoanRows : OnPayment(loan)
    \/ \E text \in InputTexts : SetPaymentAmount(text)
    \/ DismissPayment
    \/ \E ok \in BOOLEAN : HandlePayment(ok)

SpecLoans == InitLoans /\ [][NextLoans]_vars

\* texts that are the literal of a number greater than 0
PositiveTexts == {"12"}

\* a step in which makePayment is called
PaymentCallStep == Len(paymentCalls') = Len(paymentCalls) + 1

\* C28: a step of handlePayment calls makePayment only if a loan is selected
\* and the entered text is a number greater than 0, and then with the id of the
\* selected loan; a step of handlePayment that makes no call leaves paymentLoan
\* and paymentAmount unchanged, and so does a failed call; a successful call
\* sets paymentLoan to null and paymentAmount to the empty text.
C28_Payment ==
    [][ /\ PaymentCallStep =>
              LET call == paymentCalls'[Len(paymentCalls')]
              IN  /\ paymentLoan # Null
                  /\ paymentAmount \in PositiveTexts
                  /\ call.id = paymentLoan[1].id
                  /\ IF call.ok
                     THEN paymentLoan' = Null /\ paymentAmount' = ""
                     ELSE paymentLoan' = paymentLoan /\ paymentAmount' = paymentAmount
        /\ \A ok \in BOOLEAN :
              (HandlePayment(ok) /\ ~PaymentCallStep) =>
                  /\ paymentLoan' = paymentLoan
                  /\ paymentAmount' = paymentAmount
                  /\ paymentCalls' = paymentCalls
      ]_vars

\* a payment for loan 1 that failed, then one that succeeded, and after it a
\* rejected amount for card 2
C28_Witness ==
    /\ Len(paymentCalls) = 2
    /\ paymentCalls[1].id = 1 /\ ~paymentCalls[1].ok
    /\ paymentCalls[2].id = 1 /\ paymentCalls[2].ok
    /\ paymentLoan # Null /\ paymentLoan[1].id = 2
    /\ paymentAmount = "0"
    /\ loanToast = Some("Please enter a valid amount")

-----------------------------------------------------------------------------
(* Auth: the sign-in / sign-up form.  A message is held in pieces, so that   *)
(* String.prototype.includes is a test for a run of pieces.                  *)

\* submits in one run
MaxSubmits == 3

\* AUTH_ERROR_MAP, in the order of its entries
AUTH_ERROR_MAP ==
    << [key |-> <<"Invalid login credentials">>,
        readable |-> <<"Incorrect email or password. Please try again.">>],
       [key |-> <<"Email not confirmed">>,
        readable |-> <<"Please verify your email before signing in. Check your inbox.">>],
       [key |-> <<"User already registered">>,
        readable |-> <<"An account with this email already exists. Try signing in.">>],
       [key |-> <<"Password should be at least 6 characters">>,
        readable |-> <<"Password must be at least 6 characters.">>],
       [key |-> <<"Signup requires a valid password">>,
        readable |-> <<"Please enter a valid password.">>],
       [key |-> <<"Email rate limit exceeded">>,
        readable |-> <<"Too many attempts. Please wait a moment and try again.">>],
       [key |-> <<"For security purposes, you can only request this after">>,
        readable |-> <<"Too many requests. Please wait before trying again.">>] >>

\* messages the auth service or the network layer may fail with
RawMessages ==
    { <<>>,
      <<"Invalid login credentials">>,
      <<"User already registered", ". ", "Email not confirmed">>,
      <<"For security purposes, you can only request this after", " 30 seconds">>,
      <<"Failed to fetch">> }

\* rawMessage.includes(key)
IncludesText(text, key) ==
    \E i \in 1..(Len(text) - Len(key) + 1) : SubSeq(text, i, i + Len(key) - 1) = key

RECURSIVE ReadableFrom(_, _)
\* the for loop of getReadableError from entry k on, then
\* rawMessage || 'Something went wrong. Please try again.'
ReadableFrom(rawMessage, k) ==
    IF k > Len(AUTH_ERROR_MAP)
    THEN IF rawMessage = <<>> THEN <<"Something went wrong. Please try again.">>
         ELSE rawMessage
    ELSE IF IncludesText(rawMessage, AUTH_ERROR_MAP[k].key) THEN AUTH_ERROR_MAP[k].readable
         ELSE ReadableFrom(rawMessage, k + 1)

getReadableError(rawMessage) == ReadableFrom(rawMessage, 1)

\* onChange of the email or the password input
EditCredentials ==
    /\ ~authUser
    /\ authError' = Null
    /\ touchedSince' = TRUE
    /\ UNCHANGED <<isSignUp, isLoading, pendingCall, authUser, authToast, lastOutcome,
                   submits, notAuthVars>>

\* handleToggle
HandleToggle ==
    /\ ~authUser
    /\ isSignUp' = ~isSignUp
    /\ authError' = Null
    /\ touchedSince' = TRUE
    /\ UNCHANGED <<isLoading, pendingCall, authUser, authToast, lastOutcome,
                   submits, notAuthVars>>

\* mutant: onSubmit without setAuthError(null)
SubmitAuthKeepsError ==
    /\ ~authUser
    /\ ~isLoading
    /\ submits < MaxSubmits
    /\ submits' = submits + 1
    /\ isLoading' = TRUE
    /\ pendingCall' = Some(IF isSignUp THEN "signUp" ELSE "signIn")
    /\ lastOutcome' = Null
    /\ UNCHANGED <<isSignUp, authError, authUser, authToast, touchedSince, notAuthVars>>

\* onSubmit up to its await: the submit button is disabled while isLoading
SubmitAuth ==
    /\ ~authUser
    /\ ~isLoading
    /\ submits < MaxSubmits
    /\ submits' = submits + 1
    /\ isLoading' = TRUE
    /\ authError' = Null
    /\ pendingCall' = Some(IF isSignUp THEN "signUp" ELSE "signIn")
    /\ lastOutcome' = Null
    /\ UNCHANGED <<isSignUp, authUser, authToast, touchedSince, notAuthVars>>

\* onSubmit from its await on: the call settles with `error` (Null: none);
\* a sign-in that succeeded signs the user in, a sign-up may or may not
CallSettles(error, session) ==
    /\ pendingCall # Null
    /\ pendingCall' = Null
    /\ IF error = Null
       THEN /\ authToast' = Some(IF pendingCall[1] = "signUp"
                                 THEN "Account created! Check your email to verify."
                                 ELSE "Welcome back!")
            /\ authUser' = (pendingCall[1] = "signIn" \/ session)
            /\ UNCHANGED authError
       ELSE /\ authError' = Some(getReadableError(error[1]))
            /\ UNCHANGED <<authToast, authUser>>
    /\ isLoading' = FALSE
    /\ lastOutcome' = Some([failed |-> error # Null,
                            raw |-> IF error = Null THEN <<>> ELSE error[1]])
    /\ touchedSince' = FALSE
    /\ UNCHANGED <<isSignUp, submits, notAuthVars>>

InitAuth ==
    /\ isSignUp = FALSE
    /\ isLoading = FALSE
    /\ authError = Null
    /\ pendingCall = Null
    /\ authUser = FALSE
    /\ authToast = Null
    /\ lastOutcome = Null
    /\ touchedSince = FALSE
    /\ submits = 0
    /\ NotAuthIdle

NextAuth ==
    \/ EditCredentials
    \/ HandleToggle
    \/ SubmitAuth
    \/ \E error \in {Null} \cup {Some(raw) : raw \in RawMessages}, session \in BOOLEAN :
           CallSettles(error, session)

SpecAuth == InitAuth /\ [][NextAuth]_vars

\* the entries of AUTH_ERROR_MAP whose key occurs in a raw message
MatchingEntries(raw) ==
    { k \in 1..Len(AUTH_ERROR_MAP) : IncludesText(raw, AUTH_ERROR_MAP[k].key) }

\* the message the claim states for a raw message
StatedMessage(raw) ==
    IF MatchingEntries(raw) # {}
    THEN AUTH_ERROR_MAP[CHOOSE k \in MatchingEntries(raw) :
                            \A j \in MatchingEntries(raw) : k <= j].readable
    ELSE IF raw # <<>> THEN raw
    ELSE <<"Something went wrong. Please try again.">>

\* C30: while the sign-in or sign-up call is in flight isLoading is true and
\* authError is null, and isLoading is false whenever no call is in flight,
\* after a success and after a failure alike; authError is non-null only if
\* the most recent submit failed and no edit or toggle happened since it
\* settled, and it is then the first matching entry of AUTH_ERROR_MAP for the
\* raw message, else the raw message, else the generic fallback.
C30_AuthError ==
    /\ pendingCall # Null => isLoading /\ authError = Null
    /\ pendingCall = Null => ~isLoading
    /\ authError # Null =>
          /\ lastOutcome # Null
          /\ lastOutcome[1].failed
          /\ ~touchedSince
          /\ authError[1] = StatedMessage(lastOutcome[1].raw)

\* a second submit, in sign-up mode, failed with a message that holds two keys
\* of the map, the later entry's first
C30_Witness ==
    /\ submits = 2
    /\ isSignUp
    /\ ~isLoading
    /\ lastOutcome # Null
    /\ lastOutcome[1].raw = <<"User already registered", ". ", "Email not confirmed">>
    /\ authError = Some(<<"Please verify your email before signing in. Check your inbox.">>)
=============================================================================
